---- MODULE Spec2Model ----
(***************************************************************************)
(* Model of the windowed batch writer (src/app/file_writer.py,             *)
(* FileWindowedWriter) together with the file system it writes to.         *)
(*                                                                         *)
(* Time is counted in ticks of 1/TicksPerSecond seconds since an           *)
(* hour-aligned epoch, so that datetime.now()'s sub-second part is kept.   *)
(* A handler call (write_line, close) is a sequence of steps, one per      *)
(* file-system operation, in the order of the code; pc is the position of  *)
(* the call.  Every file-system operation may fail with an I/O error.      *)
(***************************************************************************)
EXTENDS Integers, Sequences, FiniteSets, TLC

\* ------------------------------------------------------------- bounds ----
MaxWrites == 2          \* write_line calls per run
MaxCloses == 1          \* close calls per run (and one more after a close that ends the run)
MaxFailures == 2        \* injected I/O failures per run
TicksPerSecond == 2     \* clock resolution: ticks per second

MinuteTicks == 60 * TicksPerSecond
HourTicks == 60 * MinuteTicks

\* Constructor arguments the runs are drawn from (config.py:62-81 leaves
\* them unconstrained integers / booleans).
WindowMinutesChoices == {30, 45}
MaxObjectBytesChoices == {3}

\* Lines handed to write_line: sequences of code points ("a\n", "e-acute\n").
Texts == {<<97, 10>>, <<233, 10>>}

\* The wall clock when the process starts (one tick before the last whole
\* second of an hour), and the advances of the clock between two
\* datetime.now() readings (one tick; 15 minutes).
StartClocks == {59 * MinuteTicks + 59 * TicksPerSecond - 1}
ClockSteps == {1, 15 * MinuteTicks}

None == <<>>
Some(x) == <<x>>

VARIABLES
    window_minutes, max_object_bytes, use_marker,      \* constructor arguments
    current_window_start, current_window_end,          \* None or Some(tick)
    seq_counter, file_path, file, bytes_written,       \* writer fields
    clock,                                             \* last datetime.now()
    pc, call,                                          \* position / frame of the running call
    objects,                                           \* objects[seq]: the file named by seq
    markers,                                           \* partition prefixes holding uploading.marker
    buffer,                                            \* bytes pending in the open file handle
    history,                                           \* completed calls
    failures                                           \* I/O failures so far

vars == <<window_minutes, max_object_bytes, use_marker, current_window_start,
          current_window_end, seq_counter, file_path, file, bytes_written,
          clock, pc, call, objects, markers, buffer, history, failures>>

config == <<window_minutes, max_object_bytes, use_marker>>
window == <<current_window_start, current_window_end>>

\* The consumer of ws_client.py: main_async, run_stream, _consume_messages.
VARIABLES
    reconnect_base_delay, reconnect_max_delay,         \* settings
    stop,                                              \* asyncio.Event: is_set()
    cancelled,                                         \* the task was cancelled
    main_pc, rs_pc,                                    \* position in main_async / run_stream
    exc,                                               \* exception that left run_stream
    backoff,                                           \* run_stream's local
    connects,                                          \* connection attempts so far
    conn,                                              \* open connection (0: none)
    frames,                                            \* frames received so far
    msg,                                               \* frame being processed
    records,                                           \* records of msg still to write
    produced,                                          \* records the transform returned
    written,                                           \* lines passed to write_line
    waits,                                             \* waits since the last successful connect
    waited,                                            \* a wait ended since the last attempt ended
    last_fail,                                         \* last failing step of frame handling
    closes,                                            \* writer.close() calls from main_async
    sink_open                                          \* the writer holds an open object

\* The summarizer of bedrock_summarizer.py: BedrockSummarizer.
VARIABLES
    max_retries,                                       \* constructor argument
    sm_pc,                                             \* position in summarize_article
    attempt,                                           \* loop variable of _invoke_with_retry
    invocations,                                       \* model invocations made so far
    sleeps,                                            \* time.sleep() calls made so far
    summary,                                           \* returned value: None or Some(text)
    sm_exc                                             \* exception that left the summarizer

summ_vars == <<max_retries, sm_pc, attempt, invocations, sleeps, summary, sm_exc>>

\* The start of the process, ws_client.py: main_async.
VARIABLES
    settings,                                          \* app.config.settings: sink, s3_bucket
    writer                                             \* main_async's writer: "none", "file" or "s3"

main_vars == <<settings, writer>>

\* The object-store sink (spec 3 and 4.4; app/s3_writer.py is not part of
\* the sources at hand) and the store it uploads to.
VARIABLES
    part_size_bytes,                                   \* constructor argument
    s3_pc,                                             \* position of the sink's finalize
    upload_session,                                    \* None or Some(UploadSession)
    store                                              \* marker, uploaded parts, completed objects

s3_vars == <<part_size_bytes, s3_pc, upload_session, store>>

\* The migration of one legacy file, migrate_legacy_data.py: _migrate_file.
VARIABLES
    legacy_file,                                       \* the object's lines before the migration
    put_objects,                                       \* the bodies put_object stored under the key
    mg_pc,                                             \* position in _migrate_file
    mg_pos,                                            \* the record the loop is at
    legacy_records,                                    \* what read_file returned
    transformed_records,                               \* local list of _migrate_file
    stats                                              \* MigrationStats

mig_vars == <<legacy_file, put_objects, mg_pc, mg_pos, legacy_records,
              transformed_records, stats>>

stream_vars == <<reconnect_base_delay, reconnect_max_delay, stop, cancelled,
                 main_pc, rs_pc, exc, backoff, connects, conn, frames, msg,
                 records, produced, written, waits, waited, last_fail, closes,
                 sink_open, summ_vars, main_vars, s3_vars, mig_vars>>

\* The store before anything is uploaded: no marker object, no session
\* started, no part uploaded, no object completed.
EmptyStore == [marker |-> FALSE, started |-> 0, uploaded |-> <<>>, completed |-> <<>>]

\* The object-store sink where the file sink is in use.
ObjectStoreAbsent ==
    /\ part_size_bytes = 1
    /\ s3_pc = "none"
    /\ upload_session = None
    /\ store = EmptyStore

\* MigrationStats as the dataclass creates it (lines 45-56), without the
\* fields _migrate_file never touches.
NewStats ==
    [files_processed |-> 0, records_processed |-> 0, records_transformed |-> 0,
     records_skipped |-> 0, records_failed |-> 0, ai_summaries_generated |-> 0,
     html_fallbacks_used |-> 0, errors |-> <<>>, api_calls_made |-> 0]

\* The migration script's variables where the service runs.
MigrationAbsent ==
    /\ legacy_file = <<>>
    /\ put_objects = <<>>
    /\ mg_pc = "none"
    /\ mg_pos = 0
    /\ legacy_records = <<>>
    /\ transformed_records = <<>>
    /\ stats = NewStats

\* The variables of main_async where its start is not looked at: the file
\* sink of the default settings.
StartAbsent ==
    /\ settings = [sink |-> "file", s3_bucket |-> None]
    /\ writer = "file"
    /\ ObjectStoreAbsent
    /\ MigrationAbsent

\* The summarizer's variables where it is not exercised.
SummarizerAbsent ==
    /\ max_retries = 0
    /\ sm_pc = "none"
    /\ attempt = 0
    /\ invocations = <<>>
    /\ sleeps = <<>>
    /\ summary = None
    /\ sm_exc = "none"

NoFail == [step |-> "none"]

\* The consumer's variables where only the writer is exercised.
ConsumerAbsent ==
    /\ reconnect_base_delay = 1
    /\ reconnect_max_delay = 1
    /\ stop = FALSE
    /\ cancelled = FALSE
    /\ main_pc = "none"
    /\ rs_pc = "none"
    /\ exc = "none"
    /\ backoff = 1
    /\ connects = 0
    /\ conn = 0
    /\ frames = 0
    /\ msg = None
    /\ records = <<>>
    /\ produced = <<>>
    /\ written = <<>>
    /\ waits = <<>>
    /\ waited = FALSE
    /\ last_fail = NoFail
    /\ closes = 0
    /\ sink_open = FALSE
    /\ SummarizerAbsent
    /\ StartAbsent

\* ------------------------------------------------------ pure functions ----
\* str.encode("utf-8") of one code point.
Utf8(cp) ==
    IF cp < 128 THEN <<cp>>
    ELSE IF cp < 2048 THEN <<192 + (cp \div 64), 128 + (cp % 64)>>
    ELSE <<224 + (cp \div 4096), 128 + ((cp \div 64) % 64), 128 + (cp % 64)>>

RECURSIVE Encode(_)
Encode(text) == IF text = <<>> THEN <<>> ELSE Utf8(Head(text)) \o Encode(Tail(text))

\* _floor_window: when.replace(minute=(minute // wm) * wm, second=0, microsecond=0)
FloorWindowKeepingSeconds(when) ==
    LET minute == (((when \div MinuteTicks) % 60) \div window_minutes) * window_minutes
    IN  (when \div HourTicks) * HourTicks + minute * MinuteTicks + (when % MinuteTicks)
FloorWindow(when) ==
    LET minute == (((when \div MinuteTicks) % 60) \div window_minutes) * window_minutes
    IN  (when \div HourTicks) * HourTicks + minute * MinuteTicks

\* _window_bounds: end = start + window_minutes - 1 second
WindowBounds(when) ==
    LET start == FloorWindow(when)
    IN  <<start, start + window_minutes * MinuteTicks - TicksPerSecond>>

\* _prefix_for_window: strftime keeps date+hour of start and the minute stamps
\* of start and end; seconds and sub-seconds do not appear in the path.
PrefixForWindow(start, end) ==
    [hour |-> start \div HourTicks,
     part_start |-> start \div MinuteTicks,
     part_end |-> end \div MinuteTicks]

\* _should_rotate
ShouldRotate(when) ==
    \/ current_window_end = None
    \/ when > current_window_end[1]
    \/ bytes_written >= max_object_bytes

\* What the OS does with the bytes of an "ab" handle on flush: append.
DiskAppendReversed(content, pending) == pending \o content
DiskAppend(content, pending) == content \o pending

\* _object_name, line 41: the counter goes up by one for every name taken,
\* whatever the window the name is taken for.
ObjectSeqResetPerWindow(counter, start) ==
    IF current_window_start # None /\ current_window_start[1] # start
    THEN 1 ELSE counter + 1
ObjectSeq(counter, start) == counter + 1

\* The decimal digits of n, and _object_name's "seq={n:06d}": at least six
\* digits, zero-padded (the host name and the extension are the same for all
\* names of a writer).
RECURSIVE Digits(_)
Digits(n) == IF n < 10 THEN <<n>> ELSE Digits(n \div 10) \o <<n % 10>>

RECURSIVE ZeroPad(_, _)
ZeroPad(digits, width) ==
    IF Len(digits) >= width THEN digits ELSE ZeroPad(<<0>> \o digits, width)

ObjectName(seq) == ZeroPad(Digits(seq), 6)

\* ------------------------------------------------------------- frames ----
NoCall == [op |-> "none"]

NewCall(op, id, text, when) ==
    [op |-> op, id |-> id, text |-> text, when |-> when,
     rotate |-> FALSE,          \* _should_rotate returned True
     had_file |-> FALSE,        \* an object was open when the call began
     fin_err |-> FALSE,         \* flush/close or marker removal failed in finalize
     io_err |-> FALSE,          \* an I/O error after finalize (mkdir, marker, open, write, flush)
     prev_window_end |-> current_window_end,
     prev_prefix |-> IF current_window_start = None THEN None
                     ELSE Some(PrefixForWindow(current_window_start[1], current_window_end[1])),
     prev_seq |-> seq_counter,
     prev_bytes |-> bytes_written]

WritesStarted ==
    Cardinality({i \in 1..Len(history) : history[i].op = "write_line"})
    + (IF call.op = "write_line" THEN 1 ELSE 0)

ClosesStarted ==
    Cardinality({i \in 1..Len(history) : history[i].op = "close"})
    + (IF call.op = "close" THEN 1 ELSE 0)

CanFail == failures < MaxFailures

\* The call returns (result "ok") or raises (result "raised").
Return(frame, result) ==
    /\ history' = Append(history, frame @@ [result |-> result, seq |-> seq_counter])
    /\ pc' = "idle"
    /\ call' = NoCall

\* ---------------------------------------------------------------- Init ----
WriterInit ==
    /\ window_minutes \in WindowMinutesChoices
    /\ max_object_bytes \in MaxObjectBytesChoices
    /\ use_marker \in BOOLEAN
    /\ current_window_start = None
    /\ current_window_end = None
    /\ seq_counter = 0
    /\ file_path = None
    /\ file = None
    /\ bytes_written = 0
    /\ clock \in StartClocks
    /\ pc = "idle"
    /\ call = NoCall
    /\ objects = <<>>
    /\ markers = {}
    /\ buffer = <<>>
    /\ history = <<>>
    /\ failures = 0

Init == WriterInit /\ ConsumerAbsent

\* --------------------------------------------------------- write_line ----
\* write_line, lines 71-72: read the clock, decide on rotation.
WriteLine(text, step) ==
    /\ pc = "idle"
    /\ WritesStarted < MaxWrites
    /\ LET when == clock + step
           frame == NewCall("write_line", WritesStarted + 1, text, when)
       IN  /\ clock' = when
           /\ call' = [frame EXCEPT !.rotate = ShouldRotate(when), !.had_file = (file # None)]
           /\ pc' = IF ShouldRotate(when) THEN "finalize" ELSE "write"
    /\ UNCHANGED <<config, window, seq_counter, file_path, file, bytes_written,
                   objects, markers, buffer, history, failures>>

\* close, line 103.
Close ==
    /\ pc = "idle"
    /\ \/ ClosesStarted < MaxCloses
       \/ /\ ClosesStarted = MaxCloses
          /\ WritesStarted = MaxWrites
          /\ history # <<>>
          /\ history[Len(history)].op = "close"
    /\ call' = [NewCall("close", 0, <<>>, clock) EXCEPT !.had_file = (file # None)]
    /\ pc' = "finalize"
    /\ UNCHANGED <<config, window, seq_counter, file_path, file, bytes_written,
                   clock, objects, markers, buffer, history, failures>>

\* Where a call goes once _finalize_current is over: the failures inside it
\* were logged and swallowed, so close returns and write_line goes on to
\* _start_new_window.
AfterFinalizePropagating(frame) ==
    IF frame.op = "close" \/ frame.fin_err
    THEN Return(frame, IF frame.fin_err THEN "raised" ELSE "ok")
    ELSE /\ pc' = "mkdir"
         /\ call' = frame
         /\ UNCHANGED history
AfterFinalize(frame) ==
    IF frame.op = "close"
    THEN Return(frame, "ok")
    ELSE /\ pc' = "mkdir"
         /\ call' = frame
         /\ UNCHANGED history

\* _finalize_current, lines 81-82: with no file open the call returns at
\* once, before the marker is looked at.
FinalizeWithoutFileRemovingMarker(ms) ==
    IF current_window_start = None THEN ms
    ELSE ms \ {PrefixForWindow(current_window_start[1], current_window_end[1])}
FinalizeWithoutFile(ms) == ms

\* _finalize_current, lines 81-88: nothing open -> return; else flush and
\* close the file; a failure of either is logged and swallowed.
\*   outcome "ok"         flush and close succeeded
\*   outcome "flush_fail" flush raised (only with bytes pending); close is skipped
\*   outcome "close_fail" flush succeeded, close raised
FinalizeClose(outcome) ==
    /\ pc = "finalize"
    /\ IF file = None
       THEN /\ outcome = "ok"
            /\ AfterFinalize(call)
            /\ markers' = FinalizeWithoutFile(markers)
            /\ UNCHANGED <<objects, buffer, failures>>
       ELSE LET seq == file[1] IN
            /\ outcome = "flush_fail" => (CanFail /\ buffer # <<>>)
            /\ outcome = "close_fail" => CanFail
            /\ objects' = [objects EXCEPT ![seq] =
                   [@ EXCEPT !.content = IF outcome = "flush_fail" THEN @
                                         ELSE DiskAppend(@, buffer),
                             !.state = CASE outcome = "ok" -> "closed"
                                         [] outcome = "flush_fail" -> "open"
                                         [] outcome = "close_fail" -> "close_failed"]]
            /\ buffer' = IF outcome = "flush_fail" THEN buffer ELSE <<>>
            /\ failures' = IF outcome = "ok" THEN failures ELSE failures + 1
            /\ call' = [call EXCEPT !.fin_err = (outcome # "ok")]
            /\ pc' = "fin_marker"
            /\ UNCHANGED <<history, markers>>
    /\ UNCHANGED <<config, window, seq_counter, file_path, file, bytes_written,
                   clock>>

\* _finalize_current, lines 89-100 (the finally block): remove the marker of
\* the current window if it exists (a failure is logged and swallowed), then
\* drop the file handle and reset the fields.  A handle that was not closed
\* (flush raised) is released here; its pending bytes are written out or lost.
FinalizeMarker(rm_ok, dealloc_flush) ==
    /\ pc = "fin_marker"
    /\ LET seq == file[1]
           prefix == PrefixForWindow(current_window_start[1], current_window_end[1])
           has_marker == /\ use_marker
                         /\ current_window_start # None
                         /\ current_window_end # None
                         /\ prefix \in markers
           leaked == objects[seq].state = "open"
       IN  /\ ~rm_ok => (CanFail /\ has_marker)
           /\ dealloc_flush => leaked
           /\ markers' = IF has_marker /\ rm_ok THEN markers \ {prefix} ELSE markers
           /\ failures' = IF rm_ok THEN failures ELSE failures + 1
           /\ objects' = [objects EXCEPT ![seq] =
                  [@ EXCEPT !.content = IF dealloc_flush THEN DiskAppend(@, buffer) ELSE @,
                            !.state = IF leaked THEN "abandoned" ELSE @,
                            !.marker_removed = has_marker /\ rm_ok]]
           /\ buffer' = <<>>
           /\ file' = None
           /\ file_path' = None
           /\ bytes_written' = 0
           /\ AfterFinalize([call EXCEPT !.fin_err = @ \/ ~rm_ok])
    /\ UNCHANGED <<config, window, seq_counter, clock>>

\* os.path.join(prefix, file_name), line 49: the object of the file system
\* that the path names, or the place of a new object when there is none.
SlotOf(prefix, seq) ==
    IF \E k \in 1..Len(objects) : objects[k].prefix = prefix /\ objects[k].seq = seq
    THEN CHOOSE k \in 1..Len(objects) : objects[k].prefix = prefix /\ objects[k].seq = seq
    ELSE Len(objects) + 1

\* open(path, "ab"), line 58: the bytes the object holds stay as they are.
OpenTruncating(content) == <<>>
OpenAppend(content) == content

\* _start_new_window, lines 45-52: makedirs (may raise), then take the next
\* object name and store path and window.
StartMkdir(ok) ==
    /\ pc = "mkdir"
    /\ ~ok => CanFail
    /\ IF ok
       THEN LET b == WindowBounds(call.when)
                prefix == PrefixForWindow(b[1], b[2])
                seq == ObjectSeq(seq_counter, b[1])
            IN  /\ seq_counter' = seq
                /\ file_path' = Some([prefix |-> prefix, seq |-> seq])
                /\ current_window_start' = Some(b[1])
                /\ current_window_end' = Some(b[2])
                /\ objects' = IF SlotOf(prefix, seq) <= Len(objects) THEN objects
                               ELSE Append(objects, [prefix |-> prefix, content |-> <<>>,
                                                     state |-> "absent", marker_removed |-> FALSE,
                                                     marker_made |-> FALSE,
                                                     seq |-> seq, name |-> ObjectName(seq)])
                /\ pc' = "marker"
                /\ UNCHANGED <<call, history, failures>>
       ELSE /\ failures' = failures + 1
            /\ Return([call EXCEPT !.io_err = TRUE], "raised")
            /\ UNCHANGED <<seq_counter, file_path, window, objects>>
    /\ UNCHANGED <<config, file, bytes_written, clock, markers, buffer>>

\* _start_new_window, lines 53-57: create the marker; a failure is logged
\* and swallowed.
StartMarker(ok) ==
    /\ pc = "marker"
    /\ ~ok => (CanFail /\ use_marker)
    /\ LET prefix == file_path[1].prefix IN
       /\ markers' = IF use_marker /\ ok THEN markers \cup {prefix} ELSE markers
       /\ objects' = [objects EXCEPT ![SlotOf(prefix, file_path[1].seq)].marker_made =
                                          use_marker /\ ok]
    /\ failures' = IF ok THEN failures ELSE failures + 1
    /\ call' = [call EXCEPT !.io_err = @ \/ ~ok]
    /\ pc' = "open"
    /\ UNCHANGED <<config, window, seq_counter, file_path, file, bytes_written,
                   clock, buffer, history>>

\* _start_new_window, lines 58-59: open the object for append (may raise).
StartOpen(ok) ==
    /\ pc = "open"
    /\ ~ok => CanFail
    /\ IF ok
       THEN LET slot == SlotOf(file_path[1].prefix, file_path[1].seq) IN
            /\ file' = Some(slot)
            /\ bytes_written' = 0
            /\ objects' = [objects EXCEPT ![slot] =
                               [@ EXCEPT !.state = "open", !.content = OpenAppend(@)]]
            /\ pc' = "write"
            /\ UNCHANGED <<call, history, failures>>
       ELSE /\ failures' = failures + 1
            /\ Return([call EXCEPT !.io_err = TRUE], "raised")
            /\ UNCHANGED <<file, bytes_written, objects>>
    /\ UNCHANGED <<config, window, seq_counter, file_path, clock, markers, buffer>>

\* write_line, lines 75-76: encode, write into the handle's buffer.  With
\* no handle (self._file is None) the attribute access raises.
FileWrite(ok) ==
    /\ pc = "write"
    /\ ~ok => (CanFail /\ file # None)
    /\ IF file = None
       THEN /\ Return(call, "raised")
            /\ UNCHANGED <<buffer, failures>>
       ELSE IF ok
       THEN /\ buffer' = Append(buffer, [id |-> call.id, data |-> Encode(call.text)])
            /\ pc' = "flush"
            /\ UNCHANGED <<call, history, failures>>
       ELSE /\ failures' = failures + 1
            /\ Return([call EXCEPT !.io_err = TRUE], "raised")
            /\ UNCHANGED buffer
    /\ UNCHANGED <<config, window, seq_counter, file_path, file, bytes_written,
                   clock, objects, markers>>

\* write_line, lines 77-78: flush (may raise, the bytes stay pending in the
\* handle), then count the bytes.
FileFlush(ok) ==
    /\ pc = "flush"
    /\ ~ok => CanFail
    /\ IF ok
       THEN /\ objects' = [objects EXCEPT ![file[1]].content = DiskAppend(@, buffer)]
            /\ buffer' = <<>>
            /\ bytes_written' = bytes_written + Len(Encode(call.text))
            /\ Return(call, "ok")
            /\ UNCHANGED failures
       ELSE /\ failures' = failures + 1
            /\ Return([call EXCEPT !.io_err = TRUE], "raised")
            /\ UNCHANGED <<objects, buffer, bytes_written>>
    /\ UNCHANGED <<config, window, seq_counter, file_path, file, clock, markers>>

Next ==
    \/ \E text \in Texts, step \in ClockSteps :
          WriteLine(text, step) /\ UNCHANGED stream_vars
    \/ Close /\ UNCHANGED stream_vars
    \/ \E outcome \in {"ok", "flush_fail", "close_fail"} :
          FinalizeClose(outcome) /\ UNCHANGED stream_vars
    \/ \E rm_ok \in BOOLEAN, dealloc_flush \in BOOLEAN :
          FinalizeMarker(rm_ok, dealloc_flush) /\ UNCHANGED stream_vars
    \/ \E ok \in BOOLEAN : StartMkdir(ok) /\ UNCHANGED stream_vars
    \/ \E ok \in BOOLEAN : StartMarker(ok) /\ UNCHANGED stream_vars
    \/ \E ok \in BOOLEAN : StartOpen(ok) /\ UNCHANGED stream_vars
    \/ \E ok \in BOOLEAN : FileWrite(ok) /\ UNCHANGED stream_vars
    \/ \E ok \in BOOLEAN : FileFlush(ok) /\ UNCHANGED stream_vars

Spec == Init /\ [][Next]_vars

\* ------------------------------------------- the writer across restarts ----
\* Between two calls the process ends (it is killed, or exits without
\* close) and a new process constructs a new writer over the same base
\* directory: __init__, lines 10-24, starts again with no window, no file
\* and the counter at 0; the files and markers of the directory stay.
MaxRestarts == 1        \* restarts of the process per run

Restarts == Cardinality({i \in 1..Len(history) : history[i].op = "restart"})

\* One I/O failure is injected in these runs.
RestartInit ==
    /\ window_minutes = 30
    /\ max_object_bytes \in MaxObjectBytesChoices
    /\ use_marker = TRUE
    /\ current_window_start = None
    /\ current_window_end = None
    /\ seq_counter = 0
    /\ file_path = None
    /\ file = None
    /\ bytes_written = 0
    /\ clock \in StartClocks
    /\ pc = "idle"
    /\ call = NoCall
    /\ objects = <<>>
    /\ markers = {}
    /\ buffer = <<>>
    /\ history = <<>>
    /\ failures = MaxFailures - 1
    /\ ConsumerAbsent

\* flushed: the bytes pending in the open handle reach the file when the
\* process ends (an exit of the interpreter), or do not (a kill).
Restart(flushed) ==
    /\ pc = "idle"
    /\ Restarts < MaxRestarts
    /\ flushed => buffer # <<>>
    /\ objects' = IF file = None THEN objects
                  ELSE [objects EXCEPT ![file[1]] =
                           [@ EXCEPT !.content = IF flushed THEN DiskAppend(@, buffer) ELSE @,
                                     !.state = IF @ = "open" THEN "abandoned" ELSE @]]
    /\ buffer' = <<>>
    /\ current_window_start' = None
    /\ current_window_end' = None
    /\ seq_counter' = 0
    /\ file_path' = None
    /\ file' = None
    /\ bytes_written' = 0
    /\ pc' = "idle"
    /\ call' = NoCall
    /\ history' = Append(history, NewCall("restart", 0, <<>>, clock)
                                      @@ [result |-> "ok", seq |-> seq_counter])
    /\ UNCHANGED <<config, clock, markers, failures>>

RestartNext ==
    \/ Next
    \/ \E flushed \in BOOLEAN : Restart(flushed) /\ UNCHANGED stream_vars

SpecRestart == RestartInit /\ [][RestartNext]_vars

\* ===================================== the window functions by themselves ==
\* Upper end of the clock readings the window functions are applied to, in
\* hours since the epoch.
MaxWindowHours == 2

\* Window sizes a writer may be constructed with: __init__ takes any int.
WindowMinutesInputs == {-30, 0, 1, 7, 15, 30, 45, 60, 90}

\* Advances of the clock between two calls: one tick, seven minutes.
WindowClockSteps == {1, 7 * MinuteTicks}

\* _floor_window raises: ZeroDivisionError of minute // 0 (line 27), or
\* ValueError of replace() for a minute outside 0..59 (line 28).
FloorWindowRaises(when) ==
    \/ window_minutes = 0
    \/ (((when \div MinuteTicks) % 60) \div window_minutes) * window_minutes \notin 0..59

WindowInit ==
    /\ window_minutes \in WindowMinutesInputs
    /\ max_object_bytes \in MaxObjectBytesChoices
    /\ use_marker = TRUE
    /\ current_window_start = None
    /\ current_window_end = None
    /\ seq_counter = 0
    /\ file_path = None
    /\ file = None
    /\ bytes_written = 0
    /\ clock \in StartClocks
    /\ pc = "new"
    /\ call = NoCall
    /\ objects = <<>>
    /\ markers = {}
    /\ buffer = <<>>
    /\ history = <<>>
    /\ failures = 0
    /\ ConsumerAbsent

\* __init__, lines 10-24: the arguments are stored as they are; no value of
\* window_minutes is refused.
Construct ==
    /\ pc = "new"
    /\ pc' = "idle"
    /\ UNCHANGED <<config, window, seq_counter, file_path, file, bytes_written,
                   clock, call, objects, markers, buffer, history, failures,
                   stream_vars>>

\* The first steps of a write_line call on a writer without open object:
\* the clock is read (line 71) and _start_new_window computes the bounds of
\* its window (line 45), which _floor_window may refuse by raising.
BoundsCall(step) ==
    /\ pc \in {"idle", "raised"}
    /\ clock + step < MaxWindowHours * HourTicks
    /\ clock' = clock + step
    /\ IF FloorWindowRaises(clock + step)
       THEN /\ pc' = "raised"
            /\ UNCHANGED window
       ELSE /\ pc' = "idle"
            /\ current_window_start' = Some(WindowBounds(clock + step)[1])
            /\ current_window_end' = Some(WindowBounds(clock + step)[2])
    /\ UNCHANGED <<config, seq_counter, file_path, file, bytes_written, call,
                   objects, markers, buffer, history, failures, stream_vars>>

WindowNext ==
    \/ Construct
    \/ \E step \in WindowClockSteps : BoundsCall(step)

SpecWindow == WindowInit /\ [][WindowNext]_<<vars, stream_vars>>

\* ================================================= ws_client.py ==========
\* Bounds of the consumer's runs.
MaxConnects == 3
MaxFrames == 2

\* (reconnect_base_delay, reconnect_max_delay), in seconds, base <= max.
DelayConfigs == {<<1, 5>>, <<2, 3>>}

Min(a, b) == IF a <= b THEN a ELSE b
Max(a, b) == IF a >= b THEN a ELSE b

\* str.strip() of a sequence of code points (32: space).
RECURSIVE LStrip(_)
LStrip(str) ==
    IF str # <<>> /\ Head(str) = 32 THEN LStrip(Tail(str)) ELSE str

RECURSIVE RStrip(_)
RStrip(str) ==
    IF str # <<>> /\ str[Len(str)] = 32
    THEN RStrip(SubSeq(str, 1, Len(str) - 1)) ELSE str

Strip(str) == LStrip(RStrip(str))

\* _extract_symbol: a security entry is a dict or an object with an optional
\* symbol, or a plain string.
ExtractSymbol(security) ==
    IF security.form \in {"dict", "object"}
    THEN IF security.symbol # None /\ security.symbol[1] # <<>>
         THEN security.symbol ELSE None
    ELSE IF Strip(security.symbol[1]) # <<>>
         THEN Some(Strip(security.symbol[1])) ELSE None

\* extract_all_outputs, lines 146-147: the symbols found, in the order of the
\* securities.
TickersUnfiltered(securities) ==
    [i \in 1..Len(securities) |->
        LET sym == ExtractSymbol(securities[i])
        IN  IF sym = None THEN <<>> ELSE sym[1]]

RECURSIVE Tickers(_)
Tickers(securities) ==
    IF securities = <<>> THEN <<>>
    ELSE LET sym == ExtractSymbol(Head(securities))
         IN  (IF sym = None THEN <<>> ELSE <<sym[1]>>) \o Tickers(Tail(securities))

\* extract_all_outputs: one record per ticker, all of the same article and
\* with the same summary as content.
ExtractAllOutputsFirstTicker(m, text) ==
    LET tickers == Tickers(m.securities)
    IN  [i \in 1..Min(1, Len(tickers)) |->
            [news_id |-> m.id, ticker |-> tickers[i], content |-> text]]
ExtractAllOutputs(m, text) ==
    LET tickers == Tickers(m.securities)
    IN  [i \in 1..Len(tickers) |->
            [news_id |-> m.id, ticker |-> tickers[i], content |-> text]]

\* OutputRecord.to_ndjson: the record's JSON and a line feed.
ToNdjson(record) == [json |-> record, end |-> 10]

SecA == [form |-> "dict", symbol |-> Some(<<65>>)]
SecB == [form |-> "str", symbol |-> Some(<<32, 66>>)]
SecNone == [form |-> "dict", symbol |-> None]

\* What a frame can be: not JSON, JSON that is no StreamMessage, or a
\* message with its securities.
FrameChoices ==
    {[kind |-> "not_json"], [kind |-> "not_message"]}
    \cup {[kind |-> "message", securities |-> secs] :
            secs \in {<<>>, <<SecNone>>, <<SecA, SecB>>}}

\* _consume_messages: the steps of the frame handling whose exceptions the
\* loop catches (the try blocks of lines 47-51, 53-56 and 73-78). The call of
\* line 63 is in no try block.
CaughtInLoopNotWrite(step) == step \in {"decode", "validate"}
CaughtInLoop(step) == step \in {"decode", "validate", "write"}

\* run_stream, lines 109-111: CancelledError is re-raised, every other
\* exception is handled.
CatchesOnlyOSError(e) == e = "OSError"
Catches(e) == e # "CancelledError"

\* run_stream, line 112: random.uniform(0, backoff), to whole seconds.
JitterChoices(b) == 0..b

\* run_stream, line 113.
DelayCapBackoffOnly(b, jitter) == Min(reconnect_max_delay, b) + jitter
Delay(b, jitter) == Min(reconnect_max_delay, b + jitter)

\* run_stream, line 107: the backoff after a successful connect.
BackoffOnConnectKept(b) == b
BackoffOnConnect(b) == reconnect_base_delay

\* run_stream, line 119.
NextBackoffUncapped(b) == Max(reconnect_base_delay, b * 2)
NextBackoff(b) == Min(reconnect_max_delay, Max(reconnect_base_delay, b * 2))

\* main_async, lines 190-193: close() is in the finally of the try around
\* run_stream.
ClosesOnExitReturnOnly(how) == how = "returned"
ClosesOnExit(how) == how \in {"returned", "raised"}

\* _consume_messages, lines 72-78: the loop goes on with the next record
\* after a write, whether it raised or not.
AfterWriteRetrying(recs, ok) == IF ok THEN Tail(recs) ELSE recs
AfterWrite(recs, ok) == Tail(recs)

\* The writer as main_async builds it, before any call.
StreamInit ==
    /\ WriterInit
    /\ window_minutes = 30
    /\ use_marker = TRUE
    /\ \E d \in DelayConfigs :
         /\ reconnect_base_delay = d[1]
         /\ reconnect_max_delay = d[2]
         /\ backoff = d[1]                               \* line 93
    /\ stop = FALSE
    /\ cancelled = FALSE
    /\ main_pc = "run_stream"
    /\ rs_pc = "loop"
    /\ exc = "none"
    /\ connects = 0
    /\ conn = 0
    /\ frames = 0
    /\ msg = None
    /\ records = <<>>
    /\ produced = <<>>
    /\ written = <<>>
    /\ waits = <<>>
    /\ waited = FALSE
    /\ last_fail = NoFail
    /\ closes = 0
    /\ sink_open = FALSE
    /\ SummarizerAbsent
    /\ StartAbsent

delays == <<reconnect_base_delay, reconnect_max_delay>>

\* An exception e leaves the try block of run_stream (lines 97-108); the
\* async with has closed the connection.
Raise(e) ==
    /\ conn' = 0
    /\ msg' = None
    /\ records' = <<>>
    /\ waited' = FALSE
    /\ IF Catches(e)
       THEN rs_pc' = "handler" /\ exc' = exc
       ELSE rs_pc' = "raised" /\ exc' = e

\* The signal handler of lines 181-182: stop.set().
SetStop ==
    /\ main_pc = "run_stream"
    /\ ~stop
    /\ stop' = TRUE
    /\ UNCHANGED <<vars, summ_vars, main_vars, s3_vars, mig_vars, delays, cancelled, main_pc, rs_pc, exc, backoff,
                   connects, conn, frames, msg, records, produced, written,
                   waits, waited, last_fail, closes, sink_open>>

\* The task is cancelled while run_stream awaits: in connect or in the read
\* (lines 109-110), or in the wait of line 116, where nothing catches it.
Cancel ==
    /\ rs_pc \in {"connecting", "reading", "waiting"}
    /\ ~cancelled
    /\ cancelled' = TRUE
    /\ IF rs_pc = "waiting"
       THEN /\ rs_pc' = "raised"
            /\ exc' = "CancelledError"
            /\ UNCHANGED <<conn, msg, records, waited>>
       ELSE Raise("CancelledError")
    /\ last_fail' = NoFail
    /\ UNCHANGED <<vars, summ_vars, main_vars, s3_vars, mig_vars, delays, stop, main_pc, backoff, connects, frames,
                   produced, written, waits, closes, sink_open>>

\* run_stream, line 94: the loop's test; lines 95-98 up to the connect.
LoopCheck ==
    /\ rs_pc = "loop"
    /\ IF stop
       THEN rs_pc' = "returned" /\ connects' = connects
       ELSE /\ connects < MaxConnects
            /\ rs_pc' = "connecting"
            /\ connects' = connects + 1
    /\ last_fail' = NoFail
    /\ UNCHANGED <<vars, summ_vars, main_vars, s3_vars, mig_vars, delays, stop, cancelled, main_pc, exc, backoff, conn,
                   frames, msg, records, produced, written, waits, waited,
                   closes, sink_open>>

\* run_stream, lines 99-107: websockets.connect succeeds (the backoff is
\* reset) or raises.
Connect(ok) ==
    /\ rs_pc = "connecting"
    /\ last_fail' = NoFail
    /\ IF ok
       THEN /\ conn' = connects
            /\ backoff' = BackoffOnConnect(backoff)
            /\ rs_pc' = "reading"
            /\ waits' = <<>>
            /\ UNCHANGED <<exc, msg, records, waited>>
       ELSE /\ Raise("OSError")
            /\ UNCHANGED <<backoff, waits>>
    /\ UNCHANGED <<vars, summ_vars, main_vars, s3_vars, mig_vars, delays, stop, cancelled, main_pc, connects, frames,
                   produced, written, closes, sink_open>>

\* _consume_messages, line 46: the connection yields a frame.
Receive(frame) ==
    /\ rs_pc = "reading"
    /\ frames < MaxFrames
    /\ frames' = frames + 1
    /\ msg' = Some(frame @@ [id |-> frames + 1])
    /\ rs_pc' = "decode"
    /\ last_fail' = NoFail
    /\ UNCHANGED <<vars, summ_vars, main_vars, s3_vars, mig_vars, delays, stop, cancelled, main_pc, exc, backoff,
                   connects, conn, records, produced, written, waits, waited,
                   closes, sink_open>>

\* _consume_messages, line 46: the iteration ends because the connection was
\* closed normally (close code 1000 or 1001); _consume_messages returns, the
\* async with is left and the loop of run_stream goes round.
ConnectionClosedOK ==
    /\ rs_pc = "reading"
    /\ conn' = 0
    /\ rs_pc' = "loop"
    /\ waited' = FALSE
    /\ last_fail' = NoFail
    /\ UNCHANGED <<vars, summ_vars, main_vars, s3_vars, mig_vars, delays, stop, cancelled, main_pc, exc, backoff,
                   connects, frames, msg, records, produced, written, waits,
                   closes, sink_open>>

\* _consume_messages, line 46: the iteration raises ConnectionClosedError
\* (closed with an error code, connection lost, heartbeat timeout).
ConnectionClosedError ==
    /\ rs_pc = "reading"
    /\ Raise("ConnectionClosedError")
    /\ last_fail' = NoFail
    /\ UNCHANGED <<vars, summ_vars, main_vars, s3_vars, mig_vars, delays, stop, cancelled, main_pc, backoff, connects,
                   frames, produced, written, waits, closes, sink_open>>

\* A step of the frame handling raises: the loop goes on with what is next
\* (continue) if it catches the step's exceptions, else the exception leaves
\* _consume_messages.
StepFails(step, e, next_pc, rest) ==
    /\ last_fail' = [step |-> step, conn |-> conn]
    /\ IF CaughtInLoop(step)
       THEN /\ rs_pc' = next_pc
            /\ records' = rest
            /\ msg' = IF next_pc = "reading" THEN None ELSE msg
            /\ UNCHANGED <<conn, waited, exc>>
       ELSE Raise(e)

\* _consume_messages, lines 47-56: orjson.loads and model_validate.
Decode ==
    /\ rs_pc = "decode"
    /\ IF msg[1].kind = "not_json"
       THEN StepFails("decode", "JSONDecodeError", "reading", <<>>)
       ELSE IF msg[1].kind = "not_message"
       THEN StepFails("validate", "ValidationError", "reading", <<>>)
       ELSE /\ rs_pc' = "transform"
            /\ last_fail' = NoFail
            /\ UNCHANGED <<conn, msg, records, waited, exc>>
    /\ UNCHANGED <<vars, summ_vars, main_vars, s3_vars, mig_vars, delays, stop, cancelled, main_pc, backoff, connects,
                   frames, produced, written, waits, closes, sink_open>>

\* _consume_messages, lines 63-69: the call of extract_all_outputs returns
\* the records of the message or raises. (The call passes three arguments;
\* extract_all_outputs of models.py takes two, which is a TypeError for every
\* message. The returning branch is the function's body.)
Transform(ok) ==
    /\ rs_pc = "transform"
    /\ IF ok
       THEN LET recs == ExtractAllOutputs(msg[1], summary)
            IN  /\ produced' = produced \o recs
                /\ records' = recs
                /\ rs_pc' = IF recs = <<>> THEN "reading" ELSE "write"
                /\ msg' = IF recs = <<>> THEN None ELSE msg
                /\ last_fail' = NoFail
                /\ UNCHANGED <<conn, waited, exc>>
       ELSE /\ StepFails("transform", "TypeError", "reading", <<>>)
            /\ UNCHANGED produced
    /\ UNCHANGED <<vars, summ_vars, main_vars, s3_vars, mig_vars, delays, stop, cancelled, main_pc, backoff, connects,
                   frames, written, waits, closes, sink_open>>

\* _consume_messages, lines 72-78: write_line with the next record's line.
\* The call returns with an object open, or raises with the object open or
\* not.
Write(ok, open_after) ==
    /\ rs_pc = "write"
    /\ ok => open_after
    /\ written' = Append(written, [line |-> ToNdjson(Head(records)), conn |-> conn])
    /\ sink_open' = open_after
    /\ LET rest == AfterWrite(records, ok)
           next_pc == IF rest = <<>> THEN "reading" ELSE "write"
       IN  IF ok
           THEN /\ records' = rest
                /\ rs_pc' = next_pc
                /\ msg' = IF rest = <<>> THEN None ELSE msg
                /\ last_fail' = NoFail
                /\ UNCHANGED <<conn, waited, exc>>
           ELSE StepFails("write", "OSError", next_pc, rest)
    /\ UNCHANGED <<vars, summ_vars, main_vars, s3_vars, mig_vars, delays, stop, cancelled, main_pc, backoff, connects,
                   frames, produced, waits, closes>>

\* run_stream, lines 111-115: the handler computes the delay.
Handler(jitter) ==
    /\ rs_pc = "handler"
    /\ jitter \in JitterChoices(backoff)
    /\ waits' = Append(waits, [backoff |-> backoff, jitter |-> jitter,
                               delay |-> Delay(backoff, jitter),
                               elapsed |-> 0, ended_by |-> "none"])
    /\ rs_pc' = "waiting"
    /\ last_fail' = NoFail
    /\ UNCHANGED <<vars, summ_vars, main_vars, s3_vars, mig_vars, delays, stop, cancelled, main_pc, exc, backoff,
                   connects, conn, frames, msg, records, produced, written,
                   waited, closes, sink_open>>

\* run_stream, line 116: asyncio.wait_for(stop.wait(), timeout=delay) is
\* over when stop is set or when the delay has elapsed.
WaitOverTimeoutOnly(wait) == wait.elapsed >= wait.delay
WaitOver(wait) == stop \/ wait.elapsed >= wait.delay

\* Time passes while run_stream waits (line 116).
WaitTick ==
    /\ rs_pc = "waiting"
    /\ ~WaitOver(waits[Len(waits)])
    /\ waits' = [waits EXCEPT ![Len(waits)].elapsed = @ + 1]
    /\ UNCHANGED <<vars, summ_vars, main_vars, s3_vars, mig_vars, delays, stop, cancelled, main_pc, rs_pc, exc,
                   backoff, connects, conn, frames, msg, records, produced, written,
                   waited, last_fail, closes, sink_open>>

\* run_stream, lines 116-119: the wait ends, by the timeout or because stop
\* is set; the backoff is doubled up to the maximum.
WaitEnd ==
    /\ rs_pc = "waiting"
    /\ WaitOver(waits[Len(waits)])
    /\ waits' = [waits EXCEPT ![Len(waits)].ended_by = IF stop THEN "stop" ELSE "timeout"]
    /\ backoff' = NextBackoff(backoff)
    /\ waited' = TRUE
    /\ rs_pc' = "loop"
    /\ last_fail' = NoFail
    /\ UNCHANGED <<vars, summ_vars, main_vars, s3_vars, mig_vars, delays, stop, cancelled, main_pc, exc, connects,
                   conn, frames, msg, records, produced, written,
                   closes, sink_open>>

\* main_async, lines 190-193: run_stream has returned or raised; the finally
\* closes the writer, which closes the open object.
MainFinally ==
    /\ main_pc = "run_stream"
    /\ rs_pc \in {"returned", "raised"}
    /\ main_pc' = "done"
    /\ IF ClosesOnExit(rs_pc)
       THEN closes' = closes + 1 /\ sink_open' = FALSE
       ELSE UNCHANGED <<closes, sink_open>>
    /\ UNCHANGED <<vars, summ_vars, main_vars, s3_vars, mig_vars, delays, stop, cancelled, rs_pc, exc, backoff,
                   connects, conn, frames, msg, records, produced, written,
                   waits, waited, last_fail>>

\* The steps the consumer takes by itself: they need no event of the
\* connection or of the process' environment.
ConsumerStep ==
    \/ LoopCheck
    \/ \E ok \in BOOLEAN : Connect(ok)
    \/ Decode
    \/ \E ok \in BOOLEAN : Transform(ok)
    \/ \E ok \in BOOLEAN, open_after \in BOOLEAN : Write(ok, open_after)
    \/ \E jitter \in 0..reconnect_max_delay : Handler(jitter)
    \/ WaitEnd
    \/ MainFinally

StreamNext ==
    \/ SetStop
    \/ Cancel
    \/ LoopCheck
    \/ \E ok \in BOOLEAN : Connect(ok)
    \/ \E frame \in FrameChoices : Receive(frame)
    \/ ConnectionClosedOK
    \/ ConnectionClosedError
    \/ Decode
    \/ \E ok \in BOOLEAN : Transform(ok)
    \/ \E ok \in BOOLEAN, open_after \in BOOLEAN : Write(ok, open_after)
    \/ \E jitter \in 0..reconnect_max_delay : Handler(jitter)
    \/ WaitTick
    \/ WaitEnd
    \/ MainFinally

SpecStream == StreamInit /\ [][StreamNext]_<<vars, stream_vars>>

\* ------------------------------------------------ the start of the process ----
\* ws_client.py: main_async from its first line; once the writer exists it
\* goes on as SpecStream does.

\* The settings the process is started with: SINK is any string (config.py:
\* 33-37), S3_BUCKET a string or unset (45-49).
SettingsChoices ==
    {[sink |-> "", s3_bucket |-> None],
     [sink |-> "file", s3_bucket |-> None],
     [sink |-> "s3", s3_bucket |-> None],
     [sink |-> "s3", s3_bucket |-> Some("")],
     [sink |-> "S3", s3_bucket |-> None],
     [sink |-> "s3", s3_bucket |-> Some("bucket")]}

\* str.lower() of the sink names in use.
Lower(str) == IF str = "S3" THEN "s3" ELSE str

\* Line 145: (settings.sink or "file").lower() == "s3".
SinkIsS3 == Lower(IF settings.sink = "" THEN "file" ELSE settings.sink) = "s3"

\* Line 146: not settings.s3_bucket.
BucketMissingUnsetOnly(bucket) == bucket = None
BucketMissing(bucket) == bucket = None \/ bucket[1] = ""

MainInit ==
    /\ WriterInit
    /\ window_minutes = 30
    /\ use_marker = TRUE
    /\ reconnect_base_delay = 1
    /\ reconnect_max_delay = 5
    /\ backoff = 1
    /\ stop = FALSE
    /\ cancelled = FALSE
    /\ main_pc = "start"
    /\ rs_pc = "none"
    /\ exc = "none"
    /\ connects = 0
    /\ conn = 0
    /\ frames = 0
    /\ msg = None
    /\ records = <<>>
    /\ produced = <<>>
    /\ written = <<>>
    /\ waits = <<>>
    /\ waited = FALSE
    /\ last_fail = NoFail
    /\ closes = 0
    /\ sink_open = FALSE
    /\ SummarizerAbsent
    /\ settings \in SettingsChoices
    /\ writer = "none"
    /\ ObjectStoreAbsent
    /\ MigrationAbsent

\* main_async, lines 128-191: the summarizer is made; for the s3 sink
\* without a bucket ValueError is raised (line 147) and leaves main_async;
\* otherwise the writer is made and run_stream is entered (backoff is set,
\* line 93).
Startup ==
    /\ main_pc = "start"
    /\ IF SinkIsS3 /\ BucketMissing(settings.s3_bucket)
       THEN /\ main_pc' = "fatal"
            /\ exc' = "ValueError"
            /\ UNCHANGED <<writer, rs_pc, backoff>>
       ELSE /\ writer' = IF SinkIsS3 THEN "s3" ELSE "file"
            /\ main_pc' = "run_stream"
            /\ rs_pc' = "loop"
            /\ backoff' = reconnect_base_delay
            /\ UNCHANGED exc
    /\ UNCHANGED <<vars, summ_vars, s3_vars, mig_vars, delays, settings, stop, cancelled, connects, conn,
                   frames, msg, records, produced, written, waits, waited, last_fail,
                   closes, sink_open>>

MainNext ==
    \/ Startup
    \/ StreamNext

SpecMain == MainInit /\ [][MainNext]_<<vars, stream_vars>>

\* ------------------------------------------- extraction of the records ----
\* models.py: _extract_symbol and extract_all_outputs applied to one message.

MaxSecurities == 2                                     \* entries in one message

\* The writer's variables where no writer is used.
WriterAbsent ==
    /\ window_minutes = 30
    /\ max_object_bytes = 3
    /\ use_marker = TRUE
    /\ current_window_start = None
    /\ current_window_end = None
    /\ seq_counter = 0
    /\ file_path = None
    /\ file = None
    /\ bytes_written = 0
    /\ clock = 0
    /\ pc = "none"
    /\ call = NoCall
    /\ objects = <<>>
    /\ markers = {}
    /\ buffer = <<>>
    /\ history = <<>>
    /\ failures = 0

\* Symbols an entry can carry: "", " ", "A", "B", " A ".
SymbolChoices == {<<>>, <<32>>, <<65>>, <<66>>, <<32, 65, 32>>}

\* Security entries of the three forms _extract_symbol distinguishes (lines
\* 111, 115, 118); a dict or an object may lack the symbol.
SecurityChoices ==
    {[form |-> f, symbol |-> Some(sym)] :
        f \in {"dict", "str", "object"}, sym \in SymbolChoices}
    \cup {[form |-> f, symbol |-> None] : f \in {"dict", "object"}}

RECURSIVE SecurityLists(_)
SecurityLists(n) ==
    IF n = 0 THEN {<<>>}
    ELSE SecurityLists(n - 1)
         \cup {Append(secs, sec) : secs \in {l \in SecurityLists(n - 1) : Len(l) = n - 1},
                                   sec \in SecurityChoices}

\* The summary handed to extract_all_outputs.
SummaryChoices == {None, Some(<<83>>)}

ExtractInit ==
    /\ WriterAbsent
    /\ reconnect_base_delay = 1
    /\ reconnect_max_delay = 1
    /\ stop = FALSE
    /\ cancelled = FALSE
    /\ main_pc = "none"
    /\ rs_pc = "transform"
    /\ exc = "none"
    /\ backoff = 1
    /\ connects = 0
    /\ conn = 0
    /\ frames = 0
    /\ \E secs \in SecurityLists(MaxSecurities), id \in {1, 2} :
         msg = Some([kind |-> "message", id |-> id, securities |-> secs])
    /\ records = <<>>
    /\ produced = <<>>
    /\ written = <<>>
    /\ waits = <<>>
    /\ waited = FALSE
    /\ last_fail = NoFail
    /\ closes = 0
    /\ sink_open = FALSE
    /\ max_retries = 0
    /\ sm_pc = "none"
    /\ attempt = 0
    /\ invocations = <<>>
    /\ sleeps = <<>>
    /\ summary \in SummaryChoices
    /\ sm_exc = "none"
    /\ StartAbsent

\* extract_all_outputs(msg, summary), lines 126-173.
ExtractCall ==
    /\ rs_pc = "transform"
    /\ records' = ExtractAllOutputs(msg[1], summary)
    /\ rs_pc' = "extracted"
    /\ UNCHANGED <<vars, summ_vars, main_vars, s3_vars, mig_vars, delays, stop, cancelled, main_pc, exc, backoff,
                   connects, conn, frames, msg, produced, written, waits, waited,
                   last_fail, closes, sink_open>>

ExtractNext == ExtractCall

SpecExtract == ExtractInit /\ [][ExtractNext]_<<vars, stream_vars>>

\* ----------------------------------------------------------- summarizer ----
\* bedrock_summarizer.py: one call of BedrockSummarizer.summarize_article.

MaxRetriesCeiling == 3                                 \* largest max_retries tried

\* The consumer's variables where no consumer runs.
StreamAbsent ==
    /\ reconnect_base_delay = 1
    /\ reconnect_max_delay = 1
    /\ stop = FALSE
    /\ cancelled = FALSE
    /\ main_pc = "none"
    /\ rs_pc = "none"
    /\ exc = "none"
    /\ backoff = 1
    /\ connects = 0
    /\ conn = 0
    /\ frames = 0
    /\ msg = None
    /\ records = <<>>
    /\ produced = <<>>
    /\ written = <<>>
    /\ waits = <<>>
    /\ waited = FALSE
    /\ last_fail = NoFail
    /\ closes = 0
    /\ sink_open = FALSE

\* The error codes of a ClientError the code tells apart (lines 78-85), and
\* one it does not name.
RetryableCodes ==
    {"ThrottlingException", "ServiceUnavailableException", "TooManyRequestsException"}
ErrorCodes == RetryableCodes \cup {"ValidationException", "AccessDeniedException"}

\* What _invoke_bedrock_with_model does (lines 142-175): it returns the
\* stripped text, returns None for an empty text, raises the service's
\* ClientError (whose message mentions on-demand throughput or not), or
\* raises another exception (no connection, a response of another shape).
Outcomes ==
    {[kind |-> "text", code |-> "", throughput |-> FALSE],
     [kind |-> "empty", code |-> "", throughput |-> FALSE],
     [kind |-> "Exception", code |-> "", throughput |-> FALSE]}
    \cup {[kind |-> "ClientError", code |-> c, throughput |-> t] :
            c \in ErrorCodes, t \in BOOLEAN}

\* Lines 78-82.
IsRetryable(outcome) ==
    /\ outcome.kind = "ClientError"
    /\ outcome.code \in RetryableCodes
    /\ outcome.code # "ValidationException"

\* Line 85: the error that sends the call to the fallback model.
WantsFallbackAnyValidation(outcome) ==
    /\ outcome.kind = "ClientError"
    /\ outcome.code = "ValidationException"
WantsFallback(outcome) ==
    /\ outcome.kind = "ClientError"
    /\ outcome.code = "ValidationException"
    /\ outcome.throughput

\* Lines 98 and 111: the wait after a failed attempt.
WaitTime(k) == 2 ^ k

\* The teasers and bodies summarize_article is called with.
TeaserChoices == {None, Some(<<>>), Some(<<84>>)}
BodyChoices == {<<>>, <<32>>, <<66>>}
SummaryText == <<83>>

SummarizeInit ==
    /\ WriterAbsent
    /\ StreamAbsent
    /\ max_retries \in 0..MaxRetriesCeiling
    /\ sm_pc = "idle"
    /\ attempt = 0
    /\ invocations = <<>>
    /\ sleeps = <<>>
    /\ summary = None
    /\ sm_exc = "none"
    /\ StartAbsent

\* _invoke_with_retry, line 62: the loop takes its next attempt k, or is
\* over and None is returned (line 113).
LoopTo(k) ==
    IF k < max_retries
    THEN /\ sm_pc' = "primary"
         /\ attempt' = k
    ELSE /\ sm_pc' = "returned"
         /\ UNCHANGED attempt

\* summarize_article, lines 135-140: without a body the teaser is the
\* result; otherwise _invoke_with_retry is entered.
SummarizeArticle(body, teaser) ==
    /\ sm_pc = "idle"
    /\ IF Strip(body) = <<>>
       THEN /\ summary' = IF teaser # None /\ teaser[1] # <<>> THEN teaser ELSE None
            /\ sm_pc' = "returned"
            /\ UNCHANGED attempt
       ELSE /\ LoopTo(0)
            /\ UNCHANGED summary
    /\ UNCHANGED <<vars, main_vars, s3_vars, mig_vars, delays, stop, cancelled, main_pc, rs_pc, exc, backoff,
                   connects, conn, frames, msg, records, produced, written, waits,
                   waited, last_fail, closes, sink_open, max_retries, invocations,
                   sleeps, sm_exc>>

\* _invoke_with_retry, lines 63-111: one attempt with the primary model.
InvokePrimary(outcome) ==
    /\ sm_pc = "primary"
    /\ invocations' = Append(invocations,
                             [model |-> "primary", attempt |-> attempt, outcome |-> outcome])
    /\ CASE outcome.kind = "text" ->                          \* lines 65-73
              /\ summary' = Some(SummaryText)
              /\ sm_pc' = "returned"
              /\ UNCHANGED attempt
         [] outcome.kind = "empty" ->                         \* line 65, then 62
              /\ LoopTo(attempt + 1)
              /\ UNCHANGED summary
         [] outcome.kind = "ClientError" ->                   \* lines 74-103
              /\ IF ~IsRetryable(outcome) \/ attempt = max_retries - 1
                 THEN sm_pc' = IF WantsFallback(outcome) THEN "fallback" ELSE "returned"
                 ELSE sm_pc' = "sleep"
              /\ UNCHANGED <<attempt, summary>>
         [] outcome.kind = "Exception" ->                     \* lines 105-111
              /\ sm_pc' = IF attempt = max_retries - 1 THEN "returned" ELSE "sleep"
              /\ UNCHANGED <<attempt, summary>>
    /\ UNCHANGED <<vars, main_vars, s3_vars, mig_vars, delays, stop, cancelled, main_pc, rs_pc, exc, backoff,
                   connects, conn, frames, msg, records, produced, written, waits,
                   waited, last_fail, closes, sink_open, max_retries, sleeps, sm_exc>>

\* time.sleep of line 103 or 111, then the next attempt.
Sleep ==
    /\ sm_pc = "sleep"
    /\ sleeps' = Append(sleeps, [after |-> attempt, seconds |-> WaitTime(attempt)])
    /\ LoopTo(attempt + 1)
    /\ UNCHANGED <<vars, main_vars, s3_vars, mig_vars, delays, stop, cancelled, main_pc, rs_pc, exc, backoff,
                   connects, conn, frames, msg, records, produced, written, waits,
                   waited, last_fail, closes, sink_open, max_retries, invocations,
                   summary, sm_exc>>

\* Line 90: the fallback model is invoked inside the handler of the
\* ClientError; what it returns is returned, what it raises leaves
\* _invoke_with_retry and summarize_article.
InvokeFallback(outcome) ==
    /\ sm_pc = "fallback"
    /\ invocations' = Append(invocations,
                             [model |-> "fallback", attempt |-> attempt, outcome |-> outcome])
    /\ IF outcome.kind \in {"text", "empty"}
       THEN /\ summary' = IF outcome.kind = "text" THEN Some(SummaryText) ELSE None
            /\ sm_pc' = "returned"
            /\ UNCHANGED sm_exc
       ELSE /\ sm_pc' = "raised"
            /\ sm_exc' = outcome.kind
            /\ UNCHANGED summary
    /\ UNCHANGED <<vars, main_vars, s3_vars, mig_vars, delays, stop, cancelled, main_pc, rs_pc, exc, backoff,
                   connects, conn, frames, msg, records, produced, written, waits,
                   waited, last_fail, closes, sink_open, max_retries, attempt, sleeps>>

SummarizeNext ==
    \/ \E body \in BodyChoices, teaser \in TeaserChoices : SummarizeArticle(body, teaser)
    \/ \E outcome \in Outcomes : InvokePrimary(outcome)
    \/ Sleep
    \/ \E outcome \in Outcomes : InvokeFallback(outcome)

SpecSummarize == SummarizeInit /\ [][SummarizeNext]_<<vars, stream_vars>>

\* ============================================================ claims ====
Calls == {i \in 1..Len(history) : history[i].op = "write_line"}
LastCall == history[Len(history)]
Returned(op) == pc = "idle" /\ history # <<>> /\ LastCall.op = op
Prefixes == {objects[k].prefix : k \in 1..Len(objects)}

\* The contents of the objects 1..k of a partition, concatenated in
\* sequence-number order.
RECURSIVE PartitionLines(_, _)
PartitionLines(prefix, k) ==
    IF k = 0 THEN <<>>
    ELSE PartitionLines(prefix, k - 1)
         \o (IF objects[k].prefix = prefix THEN objects[k].content ELSE <<>>)

\* The places (object, offset) at which the line of call number id is stored.
Places(id) ==
    {<<k, j>> \in (1..Len(objects)) \X (1..MaxWrites + 1) :
        j <= Len(objects[k].content) /\ objects[k].content[j].id = id}

StoredOnce(h) ==
    /\ Cardinality(Places(h.id)) = 1
    /\ \A pl \in Places(h.id) : objects[pl[1]].content[pl[2]].data = Encode(h.text)

\* C1: with no I/O failure and write_line calls only (clock readings never
\* decrease), every line passed to write_line is stored in exactly one object,
\* as its UTF-8 bytes, and the objects of a partition concatenated in sequence
\* order hold their lines in the order the lines were passed.
C1_OrderPreserved ==
    (pc = "idle" /\ failures = 0 /\ ClosesStarted = 0) =>
        /\ \A i \in Calls : history[i].result = "ok" /\ StoredOnce(history[i])
        /\ \A prefix \in Prefixes :
              LET lines == PartitionLines(prefix, Len(objects))
              IN  \A a, b \in 1..Len(lines) : a < b => lines[a].id < lines[b].id

\* C1 witness: two lines were written without a failure, the second after a
\* rotation, into two objects of one partition.
C1_Witness ==
    /\ pc = "idle" /\ failures = 0 /\ ClosesStarted = 0
    /\ Len(objects) = 2
    /\ objects[1].prefix = objects[2].prefix
    /\ Len(objects[1].content) = 1 /\ Len(objects[2].content) = 1

\* C2: an object's marker is removed by finalize only after the object was
\* flushed and closed successfully (also when flush or close fails).
C2_MarkerRemovedOnlyWhenDurable ==
    \A k \in 1..Len(objects) : objects[k].marker_removed => objects[k].state = "closed"

\* C3: with use_marker on, whenever an object is open the marker of its
\* partition exists.
C3_MarkerWhileOpen ==
    \A k \in 1..Len(objects) :
        (use_marker /\ objects[k].state = "open") => objects[k].prefix \in markers

\* C4: rotation by size.  A write_line call that finds bytes_written >=
\* max_object_bytes while the clock is not past the open window's end writes
\* into a second object of the same partition path, numbered one higher, and
\* the first object is finalized (closed, marker removed) before the marker
\* of the second is created.
C4_SizeRotation ==
    /\ (Returned("write_line") /\ failures = 0 /\ LastCall.had_file
        /\ LastCall.prev_bytes >= max_object_bytes
        /\ LastCall.when <= LastCall.prev_window_end[1])
       => /\ LastCall.result = "ok"
          /\ LastCall.seq = LastCall.prev_seq + 1
          /\ objects[LastCall.seq].prefix = LastCall.prev_prefix[1]
          /\ Places(LastCall.id) = {<<LastCall.seq, 1>>}
    /\ (pc = "marker" /\ failures = 0 /\ call.had_file
        /\ call.prev_bytes >= max_object_bytes
        /\ call.when <= call.prev_window_end[1])
       => /\ objects[call.prev_seq].state = "closed"
          /\ use_marker => call.prev_prefix[1] \notin markers

\* C5: rotation by time.  A write_line call whose clock reading is later than
\* the open window's end writes its line into a new object under a different
\* partition path, and afterwards the previous partition holds no marker.
C5_TimeRotation ==
    (Returned("write_line") /\ failures = 0 /\ LastCall.had_file
     /\ LastCall.when > LastCall.prev_window_end[1])
    => /\ LastCall.result = "ok"
       /\ Places(LastCall.id) = {<<LastCall.seq, 1>>}
       /\ LastCall.seq > LastCall.prev_seq
       /\ objects[LastCall.seq].prefix # LastCall.prev_prefix[1]
       /\ LastCall.prev_prefix[1] \notin markers

\* C6: every line is stored in an object whose partition path is the one
\* computed from the window bounds of the call's own clock reading.
C6_FiledUnderOwnWindow ==
    (pc = "idle" /\ failures = 0 /\ ClosesStarted = 0) =>
        \A i \in Calls :
            LET b == WindowBounds(history[i].when)
            IN  \A pl \in Places(history[i].id) :
                    objects[pl[1]].prefix = PrefixForWindow(b[1], b[2])

\* C7: after a write_line call has failed with an I/O error, a later
\* write_line call during which no I/O operation fails returns normally and
\* stores its line.
C7_RecoversAfterFailure ==
    (Returned("write_line") /\ ClosesStarted = 0
     /\ ~LastCall.fin_err /\ ~LastCall.io_err
     /\ \E i \in Calls : i < Len(history) /\ history[i].result = "raised" /\ history[i].io_err)
    => /\ LastCall.result = "ok"
       /\ Places(LastCall.id) # {}

\* C8: a failure to flush or close the object in finalize, or to remove the
\* marker, never leaves write_line or close as an error: close returns
\* normally, the open-object fields are reset, and a write_line whose later
\* steps meet no failure opens the next object and stores its line there.
C8_FinalizeFailuresSwallowed ==
    /\ \A i \in 1..Len(history) :
          /\ history[i].op = "close" => history[i].result = "ok"
          /\ (history[i].op = "write_line" /\ history[i].fin_err /\ ~history[i].io_err)
             => /\ history[i].result = "ok"
                /\ history[i].seq = history[i].prev_seq + 1
                /\ \E pl \in Places(history[i].id) : pl[1] = history[i].seq
    /\ (pc = "mkdir" /\ call.fin_err)
       => (file = None /\ file_path = None /\ bytes_written = 0)

\* C8 witness: a write_line call whose finalize met a failure has returned
\* normally, and so has a close call whose finalize met a failure.
C8_Witness ==
    /\ \E i \in Calls : history[i].fin_err /\ history[i].result = "ok"
    /\ \E i \in 1..Len(history) : history[i].op = "close" /\ history[i].fin_err

\* C9: a write_line call that returns normally has stored its line exactly
\* once and completely; the line of a call that raised is in no object, at
\* no later time either.
C9_AllOrNothing ==
    \A i \in Calls :
        /\ history[i].result = "ok" => StoredOnce(history[i])
        /\ history[i].result = "raised" => Places(history[i].id) = {}

\* C10: at most one marker exists at any time, and exactly one while an
\* object is open with use_marker on, also after steps in which opening an
\* object or removing a marker failed.
C10_OneMarker ==
    /\ Cardinality(markers) <= 1
    /\ (use_marker /\ \E k \in 1..Len(objects) : objects[k].state = "open")
       => Cardinality(markers) = 1

\* C11: the sequence counter goes up with every object opened and no rotation
\* resets it: the objects opened by the writer carry strictly increasing
\* sequence numbers, the last one the counter's value, and no two of them
\* have the same object name.
C11_SequenceMonotone ==
    /\ \A i, j \in 1..Len(objects) :
          i < j => /\ objects[i].seq < objects[j].seq
                   /\ objects[i].name # objects[j].name
    /\ objects # <<>> => objects[Len(objects)].seq = seq_counter

\* C11 witness: a second object was opened by a rotation into another window.
C11_Witness ==
    /\ Len(objects) = 2
    /\ objects[1].prefix # objects[2].prefix
    /\ objects[2].state = "open"

\* ----------------------------------------------------- consumer claims ----
Lines(recs) == [i \in 1..Len(recs) |-> ToNdjson(recs[i])]
WrittenLines == [i \in 1..Len(written) |-> written[i].line]

\* C12: a frame that fails JSON decoding or schema validation, and a record
\* whose write_line raises, are skipped without ending the read loop: the
\* connection is still the same open one, the loop is at the next record of
\* the frame if there is one and else waits for the next frame, and the
\* records not yet passed to write_line are exactly those still to come.
C12_SkipKeepsLoop ==
    last_fail.step \in {"decode", "validate", "write"} =>
        /\ conn # 0
        /\ conn = last_fail.conn
        /\ rs_pc = IF records = <<>> THEN "reading" ELSE "write"
        /\ WrittenLines \o Lines(records) = Lines(produced)

\* C12 witness: on the second frame of a connection write_line raised for the
\* first record and the second record of the frame is about to be written.
C12_Witness ==
    /\ last_fail.step = "write"
    /\ rs_pc = "write"
    /\ msg[1].id = 2
    /\ Len(records) = 1
    /\ Len(written) = 1

\* C13: an exception raised by the transform step while a frame is processed
\* does not end the read loop: the connection is still open and the loop
\* waits for the next frame.
C13_TransformFailureKeepsLoop ==
    last_fail.step = "transform" =>
        /\ conn # 0
        /\ conn = last_fail.conn
        /\ rs_pc = "reading"

\* C14: the lines passed to write_line are the records the transform returned
\* for the decoded frames, in frame arrival order and within a frame in
\* ticker order, each passed once, the records of an earlier connection
\* before those of a later one.
C14_WrittenInOrder ==
    /\ WrittenLines \o Lines(records) = Lines(produced)
    /\ \A i, j \in 1..Len(written) :
          i < j => /\ written[i].line # written[j].line
                   /\ written[i].line.json.news_id <= written[j].line.json.news_id
                   /\ written[i].conn <= written[j].conn

\* C14 witness: the loop of a second connection passed its frame's two
\* records after the two records of the first connection's frame.
C14_Witness ==
    /\ Len(written) = 4
    /\ written[2].conn = 1
    /\ written[3].conn = 2
    /\ rs_pc = "reading"

\* C15: every re-entry into Connecting after an earlier attempt or connection
\* has ended, for whatever reason, is preceded by a backoff wait (the stop
\* flag being set, the loop does not connect again).
C15_BackoffBeforeReconnect ==
    (rs_pc = "connecting" /\ connects >= 2) => waited

\* C16: once the stop flag is set, the consumer reaches Stopped from every
\* state by steps of its own, also while it reads on a healthy connection:
\* as long as main_async has not ended, a step that needs no frame, error or
\* close from the peer is enabled.
C16_StopUnblocks ==
    (stop /\ main_pc = "run_stream") => ENABLED ConsumerStep

\* C17: run_stream returns only when the stop flag is set and raises only
\* when its task is cancelled; a connection-level error never leaves it or
\* ends its loop: the handler waits and the loop, unless stop is set, goes
\* back to Connecting.
C17_ReturnsOnlyOnStop ==
    /\ [](rs_pc = "returned" => stop)
    /\ [](rs_pc = "raised" => exc = "CancelledError" /\ cancelled)
    /\ [][/\ rs_pc = "handler" => rs_pc' = "waiting"
          /\ rs_pc = "waiting" => rs_pc' \in {"loop", "raised"}
          /\ rs_pc = "loop" => rs_pc' = IF stop THEN "returned" ELSE "connecting"
          /\ rs_pc' = "returned" => rs_pc = "loop"]_rs_pc

\* C17 witness: the connection of the second attempt ended with an error,
\* the handler waited and the loop is connecting a third time.
C17_Witness ==
    /\ rs_pc = "connecting"
    /\ connects = 3
    /\ Len(waits) = 1
    /\ waited
    /\ ~stop

\* C18: main_async calls writer.close() once per run, only after run_stream
\* has returned or raised (also on cancellation); no write_line follows the
\* close, and when main_async has ended the close was made and the writer
\* holds no open object.
C18_ClosedOnceAtEnd ==
    /\ [](closes <= 1)
    /\ [](closes = 1 => rs_pc \in {"returned", "raised"})
    /\ [](main_pc = "done" => closes = 1 /\ ~sink_open)
    /\ [][closes >= 1 => written' = written]_written

\* C18 witness: the task was cancelled after lines were written; main_async
\* ended with the writer closed.
C18_Witness ==
    /\ main_pc = "done"
    /\ rs_pc = "raised"
    /\ written # <<>>
    /\ closes = 1

\* C19: for consecutive connection failures (no connection established in
\* between) the waits are non-decreasing and at most reconnect_max_delay;
\* each wait is at least the backoff of its attempt before jitter and less
\* than twice the previous attempt's backoff plus reconnect_max_delay, for
\* every jitter.
C19_WaitsBounded ==
    \A k \in 1..Len(waits) :
        /\ waits[k].delay <= reconnect_max_delay
        /\ waits[k].delay >= waits[k].backoff
        /\ k > 1 => /\ waits[k - 1].delay <= waits[k].delay
                    /\ waits[k].delay < 2 * waits[k - 1].backoff + reconnect_max_delay

\* C19 witness: three failures in a row with jitter, the waits growing up to
\* the maximum.
C19_Witness ==
    /\ Len(waits) = 3
    /\ waits[1].jitter > 0
    /\ waits[1].delay < waits[2].delay
    /\ waits[2].delay < waits[3].delay
    /\ waits[3].delay = reconnect_max_delay

\* C20 (as stated): the delay of every wait is
\* min(reconnect_max_delay, backoff) + jitter with jitter in [0, backoff]:
\* the cap applies to the backoff term only.
C20_CapOnBackoffOnly ==
    \A k \in 1..Len(waits) :
        /\ waits[k].jitter \in 0..waits[k].backoff
        /\ waits[k].delay = Min(reconnect_max_delay, waits[k].backoff) + waits[k].jitter

\* C20 (amended): the delay of every wait is
\* min(reconnect_max_delay, backoff + jitter) with jitter in [0, backoff]:
\* the cap applies to the sum of backoff and jitter.
C20_CapOnSum ==
    \A k \in 1..Len(waits) :
        /\ waits[k].jitter \in 0..waits[k].backoff
        /\ waits[k].delay = Min(reconnect_max_delay, waits[k].backoff + waits[k].jitter)

\* C20 witness: a wait whose backoff plus jitter exceeds the maximum.
C20_Witness ==
    \E k \in 1..Len(waits) :
        /\ waits[k].backoff + waits[k].jitter > reconnect_max_delay
        /\ waits[k].delay = reconnect_max_delay

\* C21: the backoff is the base delay at start and after every successful
\* connect, and after every failure wait it is twice the backoff of that
\* wait, capped at the maximum delay; with base <= maximum it stays between
\* base and maximum in every state.
C21_BackoffInvariant ==
    /\ reconnect_base_delay <= backoff
    /\ backoff <= reconnect_max_delay
    /\ (connects = 0 \/ rs_pc \in {"reading", "decode", "transform", "write"})
          => backoff = reconnect_base_delay
    /\ (waits # <<>> /\ rs_pc \in {"loop", "connecting", "handler"})
          => backoff = Min(reconnect_max_delay, 2 * waits[Len(waits)].backoff)

\* C21 witness: after the third failure wait in a row the doubled backoff
\* was cut down to the maximum.
C21_Witness ==
    /\ rs_pc = "loop"
    /\ Len(waits) = 3
    /\ 2 * waits[3].backoff > reconnect_max_delay
    /\ backoff = reconnect_max_delay

\* C22: a write_line call made while no object is open, before the first
\* write as well as after close() has finalized the object, opens a new
\* object and writes its line to it: in a run without any I/O failure the
\* call rotates, returns normally and its line is in the object of the new
\* sequence number.
C22_WriteOpensWhenNoneOpen ==
    \A i \in Calls :
        (failures = 0 /\ ~history[i].had_file)
        => /\ history[i].rotate
           /\ history[i].result = "ok"
           /\ history[i].seq = history[i].prev_seq + 1
           /\ \E pl \in Places(history[i].id) : pl[1] = history[i].seq

\* C23: close() finalizes the open object: without a failure the object is
\* closed with every line flushed into it, its marker is removed and the
\* writer holds no file.  close() is idempotent: a close() call that finds
\* no open object (a second close, or a close on a writer that never opened
\* one) changes no field of the writer and no file or marker.
C23_CloseIdempotent ==
    /\ [](\A i \in 1..Len(history) :
            (history[i].op = "close" /\ history[i].had_file /\ ~history[i].fin_err)
            => /\ objects[history[i].seq].state = "closed"
               /\ \A j \in Calls : (j < i /\ history[j].result = "ok")
                                     => Places(history[j].id) # {})
    /\ []((Returned("close") /\ LastCall.had_file /\ ~LastCall.fin_err)
            => (file = None /\ file_path = None /\ bytes_written = 0 /\ buffer = <<>>
                /\ (LastCall.prev_prefix # None => LastCall.prev_prefix[1] \notin markers)))
    /\ [][(/\ pc = "idle" \/ (call.op = "close" /\ ~call.had_file)
           /\ file = None
           /\ pc' = "finalize" \/ call.op = "close"
           /\ pc' = "finalize" => call'.op = "close")
          => UNCHANGED <<config, window, seq_counter, file_path, file,
                         bytes_written, objects, markers, buffer>>]_vars

\* C23 witness: a close() that finalized an open object was followed by a
\* second close(), both returned.
C23_Witness ==
    /\ pc = "idle"
    /\ \E i \in 1..Len(history) - 1 :
          /\ history[i].op = "close" /\ history[i].had_file /\ ~history[i].fin_err
          /\ history[i + 1].op = "close" /\ ~history[i + 1].had_file

\* C24: for every window_minutes > 0 and every clock reading t, the start of
\* t's window is at most t and less than window_minutes minutes before it,
\* FloorWindow of the start is the start, the start is a whole minute that
\* is a multiple of window_minutes past the hour, and the end is the start
\* plus window_minutes minutes less one second.
C24_FloorWindow ==
    (window_minutes > 0 /\ current_window_start # None) =>
        LET start == current_window_start[1]
            end == current_window_end[1]
        IN  /\ start <= clock
            /\ clock < start + window_minutes * MinuteTicks
            /\ FloorWindow(start) = start
            /\ start % MinuteTicks = 0
            /\ ((start \div MinuteTicks) % 60) % window_minutes = 0
            /\ end = start + window_minutes * MinuteTicks - TicksPerSecond

\* C24 witness: a reading with seconds and a fraction of a second, in a
\* window of 7 minutes that does not start on the hour.
C24_Witness ==
    /\ window_minutes = 7
    /\ current_window_start # None
    /\ clock % TicksPerSecond # 0
    /\ (clock \div TicksPerSecond) % 60 # 0
    /\ (current_window_start[1] \div MinuteTicks) % 60 = 56

\* C25: a writer with window_minutes <= 0 fails at construction: no such
\* writer exists, none reaches a write_line call, and no call finds the
\* window size invalid.
C25_InvalidWindowFailsAtConstruction ==
    pc # "new" => window_minutes > 0

\* A message whose securities are empty or have no entry with a symbol.
NoSymbolIn(m) ==
    /\ m.kind = "message"
    /\ \A i \in 1..Len(m.securities) :
          m.securities[i].symbol = None \/ m.securities[i].symbol[1] = <<>>

\* C26: a frame that yields no ticker produces no write_line call and leaves
\* the writer unchanged: while the consumer processes such a frame no step
\* passes a line to the writer, opens, rotates or closes an object, or
\* changes a field, file or marker of the writer.
C26_NoTickerNoWrite ==
    [][(msg # None /\ NoSymbolIn(msg[1]))
       => UNCHANGED <<written, sink_open, closes, vars>>]_<<vars, stream_vars>>

\* C26 witness: after a frame with two tickers was written, a second frame
\* without ticker was processed on the same connection; the loop waits for
\* the next frame and the writer is as the first frame left it.
C26_Witness ==
    /\ rs_pc = "reading"
    /\ frames = 2
    /\ last_fail = NoFail
    /\ Len(written) = 2
    /\ \A i \in 1..Len(written) : written[i].line.json.news_id = 1
    /\ sink_open

\* C27: extract_all_outputs returns exactly one record per security entry
\* that yields a symbol, in the order of the securities (the other entries
\* are skipped), and all records of one message carry the message's news_id
\* and the same content.
YieldsSymbol(security) == ExtractSymbol(security) # None

C27_OneRecordPerSymbol ==
    rs_pc = "extracted" =>
        LET yielding == SelectSeq(msg[1].securities, YieldsSymbol)
        IN  /\ Len(records) = Len(yielding)
            /\ \A i \in 1..Len(records) :
                 /\ records[i].ticker = ExtractSymbol(yielding[i])[1]
                 /\ records[i].news_id = msg[1].id
                 /\ records[i].content = summary

C27_Witness ==
    /\ rs_pc = "extracted"
    /\ Len(msg[1].securities) = 2
    /\ Len(records) = 2
    /\ records[1].ticker = <<66>>
    /\ records[2].ticker = <<65>>
    /\ records[1].content # None

\* C28: no record has a blank ticker: for an entry of any form
\* _extract_symbol returns None when the symbol is missing, empty or only
\* whitespace, and otherwise the symbol without surrounding whitespace.
C28_NoBlankTicker ==
    rs_pc = "extracted" =>
        /\ \A i \in 1..Len(msg[1].securities) :
              LET sec == msg[1].securities[i]
              IN  ExtractSymbol(sec) =
                      IF sec.symbol = None \/ Strip(sec.symbol[1]) = <<>>
                      THEN None ELSE Some(Strip(sec.symbol[1]))
        /\ \A i \in 1..Len(records) :
              /\ Strip(records[i].ticker) # <<>>
              /\ Strip(records[i].ticker) = records[i].ticker

\* C29: the summarizer never propagates an exception to its caller: every
\* failure of the service, on the primary and on the fallback model, ends
\* in a returned None.
Failed(outcome) == outcome.kind # "text"

C29_NeverPropagates ==
    /\ sm_exc = "none"
    /\ sm_pc # "raised"
    /\ (sm_pc = "returned" /\ invocations # <<>>
        /\ Failed(invocations[Len(invocations)].outcome)) => summary = None

\* C30: the primary model is invoked again only after a failure of a
\* retryable class (throttling, service unavailable, too many requests);
\* after a failure of another class the primary model is not invoked again
\* and the call does not wait for a retry.
RetryableClass(outcome) ==
    outcome.kind = "ClientError" /\ outcome.code \in RetryableCodes

C30_RetryOnlyRetryable ==
    \A i \in 1..Len(invocations) :
        invocations[i].model = "primary" =>
            /\ i > 1 => RetryableClass(invocations[i - 1].outcome)
            /\ (i = Len(invocations)
                /\ invocations[i].outcome.kind \in {"ClientError", "Exception"}
                /\ ~RetryableClass(invocations[i].outcome))
               => sm_pc \in {"returned", "fallback"}

\* C31: a call of _invoke_with_retry makes at most max_retries invocations
\* of the primary model; retry k (k = 0, 1, ...) follows a wait of 2^k
\* seconds, no wait follows the last attempt, and when all attempts have
\* failed the result is None.
IsPrimary(invocation) == invocation.model = "primary"
PrimaryInvocations == SelectSeq(invocations, IsPrimary)

C31_BoundedRetries ==
    /\ Len(PrimaryInvocations) <= max_retries
    /\ \A i \in 1..Len(PrimaryInvocations) : PrimaryInvocations[i].attempt = i - 1
    /\ \A k \in 1..Len(sleeps) :
          /\ sleeps[k].seconds = 2 ^ sleeps[k].after
          /\ sleeps[k].after < max_retries - 1
    /\ \A i \in 2..Len(PrimaryInvocations) :
          \E k \in 1..Len(sleeps) : sleeps[k].after = i - 2
    /\ (/\ sm_pc = "returned"
        /\ invocations # <<>>
        /\ Len(PrimaryInvocations) = max_retries
        /\ \A i \in 1..Len(invocations) : Failed(invocations[i].outcome))
       => summary = None

\* C32: within one summarization call the fallback model is invoked at most
\* once, and only right after the primary model failed with a
\* ValidationException that mentions on-demand throughput; the fallback's
\* outcome ends the call, and no invocation follows it.
C32_FallbackOnce ==
    \A i \in 1..Len(invocations) :
        invocations[i].model = "fallback" =>
            /\ i = Len(invocations)
            /\ i > 1
            /\ invocations[i - 1].model = "primary"
            /\ invocations[i - 1].outcome.kind = "ClientError"
            /\ invocations[i - 1].outcome.code = "ValidationException"
            /\ invocations[i - 1].outcome.throughput
            /\ sm_pc \in {"returned", "raised"}
            /\ ~ENABLED SummarizeNext

C32_Witness ==
    /\ sm_pc = "returned"
    /\ Len(invocations) = 3
    /\ invocations[1].outcome.code = "ThrottlingException"
    /\ invocations[3].model = "fallback"
    /\ invocations[3].outcome.kind = "text"
    /\ summary = Some(SummaryText)

\* C35: write_line returns normally only after the bytes of its line were
\* written and flushed to the file, and between calls bytes_written is the
\* number of bytes of the lines handed to the file of the open object (0
\* with no object open), also after a write or a flush that failed.
RECURSIVE ByteLen(_)
ByteLen(entries) ==
    IF entries = <<>> THEN 0 ELSE Len(Head(entries).data) + ByteLen(Tail(entries))

C35_BytesWrittenTracksFile ==
    /\ (Returned("write_line") /\ LastCall.result = "ok")
       => /\ file # None
          /\ buffer = <<>>
          /\ \E j \in 1..Len(objects[file[1]].content) :
                objects[file[1]].content[j] = [id |-> LastCall.id, data |-> Encode(LastCall.text)]
    /\ pc = "idle"
       => bytes_written = IF file = None THEN 0
                          ELSE ByteLen(objects[file[1]].content \o buffer)

\* C36: rotation happens only on a time or size boundary: of two
\* consecutive successful write_line calls whose clock readings floor to
\* the same window, the second with bytes_written < max_object_bytes before
\* it, both lines are in the same object and the sequence counter is the
\* same after both.
C36_NoRotationInsideWindow ==
    \A i \in 2..Len(history) :
        (/\ history[i - 1].op = "write_line" /\ history[i - 1].result = "ok"
         /\ history[i].op = "write_line" /\ history[i].result = "ok"
         /\ FloorWindow(history[i - 1].when) = FloorWindow(history[i].when)
         /\ history[i].prev_bytes < max_object_bytes)
        => /\ history[i].seq = history[i - 1].seq
           /\ ~history[i].rotate
           /\ \E k \in 1..Len(objects) :
                /\ \E j \in 1..Len(objects[k].content) :
                      objects[k].content[j].id = history[i - 1].id
                /\ \E j \in 1..Len(objects[k].content) :
                      objects[k].content[j].id = history[i].id

\* C37: the size check comes before the write: at every write into an
\* object that was already open bytes_written < max_object_bytes holds
\* beforehand, every finalized object holds fewer bytes than
\* max_object_bytes plus the length of its last line, and with
\* max_object_bytes = 0 every line is written to an object of its own.
C37_SizeBound ==
    /\ (pc = "write" /\ ~call.rotate /\ file # None) => bytes_written < max_object_bytes
    /\ \A k \in 1..Len(objects) :
          (objects[k].state = "closed" /\ objects[k].content # <<>>)
          => ByteLen(objects[k].content)
                < max_object_bytes + Len(objects[k].content[Len(objects[k].content)].data)
    /\ max_object_bytes = 0 => \A k \in 1..Len(objects) : Len(objects[k].content) <= 1

\* C38: output is append-only: no step of write_line, of a rotation or of
\* close, and no restart after which an object with a colliding name (the
\* sequence counter is at 1 again in the same window) is opened again,
\* truncates, overwrites or reorders bytes already in an object: what an
\* object held before a step is a prefix of what it holds after it.
IsPrefix(earlier, later) ==
    Len(earlier) <= Len(later) /\ SubSeq(later, 1, Len(earlier)) = earlier

C38_AppendOnly ==
    [][/\ Len(objects') >= Len(objects)
       /\ \A k \in 1..Len(objects) :
             /\ objects'[k].prefix = objects[k].prefix
             /\ objects'[k].name = objects[k].name
             /\ IsPrefix(objects[k].content, objects'[k].content)]_vars

C38_Witness ==
    /\ Restarts = 1
    /\ pc = "idle"
    /\ seq_counter = 1
    /\ Len(objects) = 1
    /\ Len(objects[1].content) = 2
    /\ objects[1].content[1].id = 1
    /\ objects[1].content[2].id = 2
    /\ history[2].op = "restart"

\* C39: a backoff wait ends at the earlier of its delay elapsing and the
\* stop flag being set (not before, and it can end then), and once the stop
\* flag is set no connection attempt is started: at its next loop check
\* run_stream leaves the loop without connecting again.
C39_WaitEndsOnStopOrDelay ==
    /\ [](\A k \in 1..Len(waits) :
            /\ waits[k].elapsed <= waits[k].delay
            /\ waits[k].ended_by = "timeout" => waits[k].elapsed = waits[k].delay
            /\ waits[k].ended_by = "stop" => stop
            /\ (k < Len(waits) \/ rs_pc \in {"loop", "connecting", "returned"})
                  => waits[k].ended_by # "none")
    /\ [](rs_pc = "waiting" =>
            (ENABLED WaitEnd
                <=> (stop \/ waits[Len(waits)].elapsed = waits[Len(waits)].delay)))
    /\ [][stop => /\ connects' = connects
                  /\ rs_pc' # "connecting" \/ rs_pc = "connecting"
                  /\ rs_pc = "loop" => rs_pc' \in {"loop", "returned"}]_<<vars, stream_vars>>

C39_Witness ==
    /\ rs_pc = "returned"
    /\ connects = 1
    /\ Len(waits) = 1
    /\ waits[1].ended_by = "stop"
    /\ waits[1].elapsed > 0
    /\ waits[1].elapsed < waits[1].delay

\* C33: with the object-store sink selected and no bucket configured
\* main_async raises before the pipeline runs: no writer is made, no
\* connection attempt is made, and neither write_line nor close is called.
C33_MissingBucketIsFatal ==
    /\ (/\ main_pc # "start"
        /\ settings.sink \in {"s3", "S3"}
        /\ settings.s3_bucket \in {None, Some("")})
       => main_pc = "fatal"
    /\ main_pc = "fatal"
       => /\ exc = "ValueError"
          /\ writer = "none"
          /\ rs_pc = "none"
          /\ connects = 0
          /\ written = <<>>
          /\ closes = 0
          /\ ~sink_open

C33_Witness ==
    /\ main_pc = "fatal"
    /\ settings.sink = "S3"
    /\ exc = "ValueError"

\* ------------------------------------------------ the object-store sink ----
\* ObjectStoreBatchSink as spec 4.4 describes it (with the UploadSession of
\* spec 3 and the opening and finalizing order of spec 4.2): the lines of
\* the open object are buffered in memory and uploaded in parts.

MaxS3Writes == 4                                       \* lines handed to the sink
PartSizes == {2, 4, 5}                                 \* values of part_size_bytes tried

S3Init ==
    /\ WriterAbsent
    /\ StreamAbsent
    /\ SummarizerAbsent
    /\ settings = [sink |-> "s3", s3_bucket |-> Some("bucket")]
    /\ writer = "s3"
    /\ part_size_bytes \in PartSizes
    /\ s3_pc = "idle"
    /\ upload_session = None
    /\ store = EmptyStore
    /\ MigrationAbsent

\* Spec 4.4: the buffer has reached part_size_bytes.
PartDueStrictlyOver(buffered) == Len(buffered) > part_size_bytes
PartDue(buffered) == Len(buffered) >= part_size_bytes

\* Spec 3: the part appended to the session's ordered list; part numbers
\* count from one.
NextPart(session) == [part_number |-> Len(session.parts) + 1, size |-> Len(session.buffer)]

\* One part upload: the buffered bytes become the next part of the session
\* in the store, and the buffer is cleared.
UploadPart(session) == [session EXCEPT !.parts = Append(@, NextPart(session)), !.buffer = <<>>]
Uploaded(session) ==
    Append(store.uploaded, [upload_id |-> session.upload_id] @@ NextPart(session))

\* Spec 4.2 rule 2 and 4.4: with no object open the marker is created first
\* and the upload session started; the line's bytes are buffered, and when
\* the buffer has reached part_size_bytes it is uploaded as one part.
S3WriteLine(text) ==
    /\ s3_pc = "idle"
    /\ Len(written) < MaxS3Writes
    /\ LET opened == IF upload_session = None
                     THEN [upload_id |-> store.started + 1, parts |-> <<>>, buffer |-> <<>>]
                     ELSE upload_session[1]
           buffered == [opened EXCEPT !.buffer = @ \o Encode(text)]
           started == IF upload_session = None
                      THEN [store EXCEPT !.marker = TRUE, !.started = @ + 1]
                      ELSE store
       IN  IF PartDue(buffered.buffer)
           THEN /\ upload_session' = Some(UploadPart(buffered))
                /\ store' = [started EXCEPT !.uploaded = Uploaded(buffered)]
           ELSE /\ upload_session' = Some(buffered)
                /\ store' = started
    /\ written' = Append(written, [line |-> text, conn |-> 0])
    /\ UNCHANGED <<part_size_bytes, s3_pc>>

\* Spec 4.4: finalizing the open object begins.
S3Finalize ==
    /\ s3_pc = "idle"
    /\ upload_session # None
    /\ s3_pc' = "final_part"
    /\ UNCHANGED <<part_size_bytes, upload_session, store, written>>

\* Spec 4.4: the remaining bytes are uploaded as the final part, which may
\* be smaller than part_size_bytes; with nothing buffered there is nothing
\* left to upload.
S3FinalPart ==
    /\ s3_pc = "final_part"
    /\ IF upload_session[1].buffer # <<>>
       THEN /\ upload_session' = Some(UploadPart(upload_session[1]))
            /\ store' = [store EXCEPT !.uploaded = Uploaded(upload_session[1])]
       ELSE UNCHANGED <<upload_session, store>>
    /\ s3_pc' = "complete"
    /\ UNCHANGED <<part_size_bytes, written>>

\* Spec 4.4: the session is completed by supplying the ordered list of part
\* identifiers.
S3Complete ==
    /\ s3_pc = "complete"
    /\ store' = [store EXCEPT !.completed =
                    Append(@, [upload_id |-> upload_session[1].upload_id,
                               parts |-> [k \in 1..Len(upload_session[1].parts) |->
                                             upload_session[1].parts[k].part_number]])]
    /\ s3_pc' = "unmark"
    /\ UNCHANGED <<part_size_bytes, upload_session, written>>

\* Spec 4.4: the marker object is then removed; no object is open.
S3RemoveMarker ==
    /\ s3_pc = "unmark"
    /\ store' = [store EXCEPT !.marker = FALSE]
    /\ upload_session' = None
    /\ s3_pc' = "idle"
    /\ UNCHANGED <<part_size_bytes, written>>

\* Spec 4.4: on abnormal termination the session is abandoned and the
\* marker remains.
S3Abandon ==
    /\ s3_pc \in {"idle", "final_part", "complete"}
    /\ upload_session # None
    /\ upload_session' = None
    /\ s3_pc' = "terminated"
    /\ UNCHANGED <<part_size_bytes, store, written>>

S3Unchanged ==
    UNCHANGED <<vars, summ_vars, main_vars, mig_vars, delays, stop, cancelled, main_pc,
                rs_pc, exc,
                backoff, connects, conn, frames, msg, records, produced, waits, waited,
                last_fail, closes, sink_open>>

S3Next ==
    \/ \E text \in Texts : S3WriteLine(text) /\ S3Unchanged
    \/ S3Finalize /\ S3Unchanged
    \/ S3FinalPart /\ S3Unchanged
    \/ S3Complete /\ S3Unchanged
    \/ S3RemoveMarker /\ S3Unchanged
    \/ S3Abandon /\ S3Unchanged

SpecObjectStore == S3Init /\ [][S3Next]_<<vars, stream_vars>>

\* The parts uploaded for one session, in upload order.
RECURSIVE PartsOf(_, _)
PartsOf(uploaded, id) ==
    IF uploaded = <<>> THEN <<>>
    ELSE (IF Head(uploaded).upload_id = id THEN <<Head(uploaded)>> ELSE <<>>)
         \o PartsOf(Tail(uploaded), id)

\* C34: a part is uploaded each time the buffer reaches part_size_bytes and
\* the buffer is then cleared; on finalize the remaining bytes are uploaded
\* as the last part, the session is then completed with the parts listed in
\* upload order under consecutive part numbers, and only then is the marker
\* removed; every part but the last of a session has at least
\* part_size_bytes bytes.
C34_PartsInUploadOrder ==
    s3_pc # "none" =>
        /\ (s3_pc = "idle" /\ upload_session # None) =>
               Len(upload_session[1].buffer) < part_size_bytes
        /\ s3_pc \in {"complete", "unmark"} => upload_session[1].buffer = <<>>
        /\ \A id \in 1..store.started :
               LET parts == PartsOf(store.uploaded, id)
               IN  /\ \A k \in 1..Len(parts) : parts[k].part_number = k
                   /\ \A k \in 1..(Len(parts) - 1) : parts[k].size >= part_size_bytes
                   /\ \A c \in 1..Len(store.completed) :
                          store.completed[c].upload_id = id =>
                              /\ Len(parts) > 0
                              /\ store.completed[c].parts = [k \in 1..Len(parts) |-> k]
        /\ (store.started > 0 /\ ~store.marker) =>
               \E c \in 1..Len(store.completed) :
                   store.completed[c].upload_id = store.started

\* C34, the case: an object was completed from two parts, the last one
\* smaller than part_size_bytes, and its marker is removed.
C34_Witness ==
    /\ ~store.marker
    /\ \E c \in 1..Len(store.completed) :
           LET parts == PartsOf(store.uploaded, store.completed[c].upload_id)
           IN  /\ Len(parts) = 2
               /\ parts[2].size < part_size_bytes

\* ------------------------------------------- migration of a legacy file ----
\* migrate_legacy_data.py: LegacyDataMigrator._migrate_file on one object,
\* with S3FileProcessor.read_file and write_file and
\* LegacyRecordTransformer.transform_record.

MaxFileLines == 3                                      \* lines of the legacy object

\* What a line of the object can be: blank, not JSON, a JSON value that is
\* no object (a number, a string, a list, null), or an object: without
\* news_id or ticker, without a body, with the apology of an earlier
\* migration as content, without a timestamp, or a complete article.
LineKinds ==
    {"blank", "malformed", "value", "no_ids", "no_body", "fallback", "no_timestamp",
     "article"}

\* The objects tried; the line at position i is told apart by news_id i.
LegacyFiles ==
    UNION {{[i \in 1..n |-> [kind |-> f[i], news_id |-> i]] : f \in [1..n -> LineKinds]} :
           n \in 0..MaxFileLines}

\* What summarize_html_content does (bedrock_summarizer.py 177-204): it
\* returns a summary of at most 100 words or a longer one, returns None,
\* or raises.
SummarizerOutcomes == {"short", "long", "none", "raises"}

MigrateInit ==
    /\ WriterAbsent
    /\ StreamAbsent
    /\ SummarizerAbsent
    /\ settings = [sink |-> "file", s3_bucket |-> None]
    /\ writer = "none"
    /\ ObjectStoreAbsent
    /\ legacy_file \in LegacyFiles
    /\ put_objects = <<>>
    /\ mg_pc = "start"
    /\ mg_pos = 0
    /\ legacy_records = <<>>
    /\ transformed_records = <<>>
    /\ stats = NewStats

\* read_file, lines 252-276: blank lines and lines orjson.loads rejects are
\* left out; every other line gives the value it holds.
IsParsed(line) == line.kind \notin {"blank", "malformed"}
ParseLines(content) == SelectSeq(content, IsParsed)

\* transform_record reaches the summarizer (line 151): the record passed
\* _validate_legacy_record (114) and the checks of lines 127 and 137.
ReachesSummarizer(record) == record.kind \in {"no_timestamp", "article"}

\* transform_record, lines 102-190. A value that is no dict fails in
\* _validate_legacy_record (195 or 200), and the handler's own
\* legacy_data.get (188) raises AttributeError out of the method. For a dict
\* the method returns None where validation fails (115), the content is the
\* apology (132), the summarizer raises (185-190) or returns nothing (166),
\* or OutputRecord rejects a missing timestamp (169, 185-190); otherwise the
\* new record. api_calls_made is counted when the summarizer returned (159).
TransformRecord(record, outcome) ==
    IF record.kind = "value"
    THEN [result |-> "raised", record |-> None, api_call |-> FALSE]
    ELSE IF ~ReachesSummarizer(record) \/ outcome = "raises"
    THEN [result |-> "none", record |-> None, api_call |-> FALSE]
    ELSE IF outcome = "none" \/ record.kind = "no_timestamp"
    THEN [result |-> "none", record |-> None, api_call |-> TRUE]
    ELSE [result |-> "record",
          record |-> Some([news_id |-> record.news_id, action |-> "Created",
                           content |-> outcome]),
          api_call |-> TRUE]

\* _migrate_file, lines 421-432: the file is counted and read; read_file
\* returns [] when get_object or the decoding raises (286-289). Without
\* records the method returns (428-430).
MigrateRead(get_ok) ==
    /\ mg_pc = "start"
    /\ LET parsed == IF get_ok THEN ParseLines(legacy_file) ELSE <<>>
       IN  /\ legacy_records' = parsed
           /\ mg_pc' = IF parsed = <<>> THEN "done" ELSE "loop"
           /\ mg_pos' = IF parsed = <<>> THEN 0 ELSE 1
    /\ stats' = [stats EXCEPT !.files_processed = @ + 1]
    /\ transformed_records' = <<>>
    /\ UNCHANGED <<legacy_file, put_objects>>

\* _migrate_file, lines 436-452, one pass of the loop; an exception of
\* transform_record ends the method in the handler of lines 467-469.
MigrateRecord(outcome) ==
    /\ mg_pc = "loop"
    /\ LET t == TransformRecord(legacy_records[mg_pos], outcome)
           counted == [stats EXCEPT !.records_processed = @ + 1,
                                    !.api_calls_made = IF t.api_call THEN @ + 1 ELSE @]
       IN  /\ IF t.result = "raised"
              THEN /\ stats' = [counted EXCEPT !.errors = Append(@, "AttributeError")]
                   /\ mg_pc' = "done"
                   /\ UNCHANGED <<transformed_records, mg_pos>>
              ELSE /\ IF t.result = "record"
                      THEN /\ transformed_records' = Append(transformed_records, t.record[1])
                           /\ stats' = [counted EXCEPT
                                  !.records_transformed = @ + 1,
                                  !.html_fallbacks_used =
                                      IF outcome = "short" THEN @ + 1 ELSE @,
                                  !.ai_summaries_generated =
                                      IF outcome = "short" THEN @ ELSE @ + 1]
                      ELSE /\ stats' = [counted EXCEPT !.records_failed = @ + 1]
                           /\ UNCHANGED transformed_records
                   /\ mg_pos' = mg_pos + 1
                   /\ mg_pc' = IF mg_pos = Len(legacy_records) THEN "write" ELSE "loop"
    /\ UNCHANGED <<legacy_file, put_objects, legacy_records>>

\* write_file, line 296: the records' NDJSON lines, one after the other.
NdjsonContent(recs) == [k \in 1..Len(recs) |-> ToNdjson(recs[k])]

\* _migrate_file, lines 455-469: the transformed records, or none, are put
\* under the key; when put_object raises, write_file raises (308-310) and
\* the error is recorded.
MigrateWrite(put_ok) ==
    /\ mg_pc = "write"
    /\ IF put_ok
       THEN /\ put_objects' = Append(put_objects, NdjsonContent(transformed_records))
            /\ UNCHANGED stats
       ELSE /\ stats' = [stats EXCEPT !.errors = Append(@, "put_object")]
            /\ UNCHANGED put_objects
    /\ mg_pc' = "done"
    /\ UNCHANGED <<legacy_file, mg_pos, legacy_records, transformed_records>>

MigrateUnchanged ==
    UNCHANGED <<vars, summ_vars, main_vars, s3_vars, delays, stop, cancelled, main_pc,
                rs_pc, exc, backoff, connects, conn, frames, msg, records, produced,
                written, waits, waited, last_fail, closes, sink_open>>

MigrateNext ==
    \/ \E get_ok \in BOOLEAN : MigrateRead(get_ok) /\ MigrateUnchanged
    \/ \E outcome \in SummarizerOutcomes : MigrateRecord(outcome) /\ MigrateUnchanged
    \/ \E put_ok \in BOOLEAN : MigrateWrite(put_ok) /\ MigrateUnchanged

SpecMigrate == MigrateInit /\ [][MigrateNext]_<<vars, stream_vars>>

\* The transformed records are records of complete articles of the file,
\* each once and in the order of the file.
InOriginalOrder(recs) ==
    /\ \A k \in 1..Len(recs) :
           /\ recs[k].news_id \in 1..Len(legacy_file)
           /\ legacy_file[recs[k].news_id].kind = "article"
           /\ recs[k].action = "Created"
           /\ recs[k].content \in {"short", "long"}
    /\ \A j, k \in 1..Len(recs) : j < k => recs[j].news_id < recs[k].news_id

\* C40: when the file yields at least one parsed record (and the store
\* takes the write), the file is overwritten once with exactly the
\* successfully transformed records in their original order, an empty file
\* when none was transformed; when reading fails or yields no record the
\* file is left untouched; and after every record
\* records_processed = records_transformed + records_failed.
C40_MigrationOverwrites ==
    mg_pc # "none" =>
        /\ (mg_pc = "done" /\ legacy_records # <<>>
                /\ \A e \in 1..Len(stats.errors) : stats.errors[e] # "put_object") =>
               /\ put_objects = <<NdjsonContent(transformed_records)>>
               /\ Len(transformed_records) = stats.records_transformed
               /\ InOriginalOrder(transformed_records)
        /\ (mg_pc = "done" /\ legacy_records = <<>>) => put_objects = <<>>
        /\ mg_pc \in {"loop", "write", "done"} =>
               stats.records_processed = stats.records_transformed + stats.records_failed

====
